---------------------------- MODULE Spec2Model ----------------------------
(***************************************************************************)
(* eTuitionBd server (src/index.js): the identity verifier, the role gate  *)
(* and the route handlers of the hiring workflow, over the document stores *)
(* users, tuitions, tutorApplications and payments.                        *)
(*                                                                         *)
(* A collection is a sequence of documents in insertion (natural) order.   *)
(* A field a document does not carry (JavaScript undefined) is "none" for  *)
(* string fields and 0 for identifier fields.                              *)
(***************************************************************************)
EXTENDS Integers, Sequences, FiniteSets, TLC

VARIABLES users, tuitions, applications, payments, roleRequests,
          reviews, notifications, conversations, messages,
          inserted, now, last, inflight, db

vars == <<users, tuitions, applications, payments, roleRequests,
          reviews, notifications, conversations, messages,
          inserted, now, last, inflight, db>>

\* the stores no hiring or role route writes
side == <<reviews, notifications, conversations, messages>>

stores == <<users, tuitions, applications, payments, roleRequests, side>>

(* ------------------------------ bounds -------------------------------- *)
\* applications ever inserted
MaxApps == 2
\* payment records ever inserted for one student
MaxPayments == 2
\* user documents ever inserted by POST /user
MaxNewUsers == 1
\* role requests ever inserted
MaxRoleRequests == 2
\* tuition posts ever inserted by POST /tuitions
MaxNewTuitions == 1
\* notifications ever inserted
MaxNotifications == 3
\* reviews ever inserted
MaxReviews == 3
\* messages ever inserted
MaxMessages == 2

None == "none"
NoId == 0
\* the status recorded for a request that was never answered
NoResponse == 0

(* --------------------------- the collections -------------------------- *)
Min(S) == CHOOSE x \in S : \A y \in S : x <= y

\* A filter is a query document: the fields that must equal a value (eq) and,
\* for { field: { $ne: value } }, the fields that must differ from one (ne).
NoFields == [k \in {} |-> None]

Matches(doc, eq, ne) ==
    /\ \A k \in DOMAIN eq : doc[k] = eq[k]
    /\ \A k \in DOMAIN ne : doc[k] # ne[k]

Matching(coll, eq, ne) == {i \in 1..Len(coll) : Matches(coll[i], eq, ne)}

Found(coll, eq) == Matching(coll, eq, NoFields) # {}

\* collection.findOne(filter): the first matching document in natural order
FindOne(coll, eq) == coll[Min(Matching(coll, eq, NoFields))]

\* collection.insertOne(doc)
InsertOne(coll, doc) == Append(coll, doc)

\* { $set: set } applied to a document: the fields of set replace its own
SetFields(doc, set) == set @@ doc

\* collection.updateOne(filter, { $set }): the first matching document only
UpdateOne(coll, eq, set) ==
    IF Found(coll, eq)
    THEN [coll EXCEPT ![Min(Matching(coll, eq, NoFields))] = SetFields(@, set)]
    ELSE coll

\* collection.updateMany(filter, { $set })
UpdateMany(coll, eq, ne, set) ==
    [i \in 1..Len(coll) |->
        IF Matches(coll[i], eq, ne) THEN SetFields(coll[i], set) ELSE coll[i]]

\* collection.deleteOne(filter)
DeleteOne(coll, eq) ==
    IF Found(coll, eq)
    THEN LET k == Min(Matching(coll, eq, NoFields))
         IN  [i \in 1..(Len(coll) - 1) |-> IF i < k THEN coll[i] ELSE coll[i + 1]]
    ELSE coll

\* new ObjectId(hex): the identifier a hex string names.  A stored _id is an
\* ObjectId; an identifier in a request body or in a field copied from one
\* is the bare hex string, which no ObjectId equals.
ObjectId(hex) == [oid |-> hex]

\* the hex string an ObjectId is sent as in a JSON response
ToHexString(id) == id.oid

(* ----------------------- the identity verifier ------------------------ *)
\* An Authorization header is absent or a text: a sequence of atoms, each the
\* space " " or an opaque run of non-space characters.
Space == " "

NoHeader == [present |-> FALSE, text |-> <<>>]

Header(text) == [present |-> TRUE, text |-> text]

Bearer(tok) == Header(<<"Bearer", Space, tok>>)

\* authorization.split(' '): the parts between spaces, empty parts kept
RECURSIVE Split(_)
Split(h) ==
    IF h = <<>> THEN << <<>> >>
    ELSE LET rest == Split(Tail(h))
         IN  IF Head(h) = Space
             THEN << <<>> >> \o rest
             ELSE << <<Head(h)>> \o Head(rest) >> \o Tail(rest)

\* the tokens the identity collaborator accepts, with the email each yields
TokenEmail ==
    ("tok_s1" :> "s1") @@ ("tok_t1" :> "t1") @@ ("tok_t2" :> "t2") @@
    ("tok_a1" :> "a1") @@ ("tok_g1" :> "g1")

\* admin.auth().verifyIdToken(token): the decoded email, or None when it throws
VerifyIdToken(token) ==
    IF Len(token) = 1 /\ token[1] \in DOMAIN TokenEmail
    THEN TokenEmail[token[1]]
    ELSE None

\* verifyFBToken: the verified email (req.tokenEmail), or None for a 401
VerifyFBTokenLastPart(h) ==
    IF ~h.present \/ h.text = <<>> THEN None
    ELSE LET parts == Split(h.text)
         IN  IF Len(parts) < 2 \/ parts[Len(parts)] = <<>> THEN None
             ELSE VerifyIdToken(parts[Len(parts)])

VerifyFBToken(h) ==
    IF ~h.present \/ h.text = <<>> THEN None
    ELSE LET parts == Split(h.text)
         IN  IF Len(parts) < 2 \/ parts[2] = <<>> THEN None
             ELSE VerifyIdToken(parts[2])

(* ---------------------------- the role gate --------------------------- *)
\* the role stored for an email: usersCollection.findOne({ email }).role
StoredRoleFirstSeen(email) ==
    CASE email = "s1" -> "student"
      [] email \in {"t1", "t2"} -> "tutor"
      [] email = "a1" -> "admin"
      [] OTHER -> None

StoredRole(email) ==
    IF Found(users, [email |-> email])
    THEN FindOne(users, [email |-> email]).role
    ELSE None

\* verifySTUDENT / verifyTUTOR / verifyADMIN: TRUE when next() is called
RoleGateAdmitsUnknown(email, role) == StoredRole(email) \in {role, None}

RoleGate(email, role) == StoredRole(email) = role

\* the gate each route is registered with (None: the verifier only)
RouteRole ==
    [r \in {"apply-tuition", "tuition-application"} |-> "tutor"] @@
    [r \in {"process-payment", "payments/demo", "payment-success",
            "applications/:id", "reject-tutor", "delete-application",
            "role-requests"} |-> "student"] @@
    [r \in {"update-role", "delete-user", "role-requests/:id"} |-> "admin"] @@
    [r \in {"tuitions", "reviews", "put-tuition", "delete-tuition"} |-> "student"] @@
    [r \in {"tutor/profile"} |-> "tutor"] @@
    [r \in {"tuition-status"} |-> "admin"] @@
    [r \in {"user/profile", "notifications/read-all", "messages",
            "notifications/:id/read", "delete-notification"} |-> None]

(* ------------------------------ requests ------------------------------ *)
\* the latest request and its response: the route, the Authorization header
\* it carried, the HTTP status (NoResponse when the handler's promise
\* rejected and nothing was sent) and a tag of the message
NoData == <<>>
NoArgs == <<>>

Reply(route, h, status, msg) ==
    last' = [route |-> route, hdr |-> h, status |-> status, msg |-> msg,
             args |-> NoArgs, data |-> NoData]

\* a request with parameters (args) worth recording, and the data its
\* response carries
ReplyData(route, h, args, status, msg, data) ==
    last' = [route |-> route, hdr |-> h, status |-> status, msg |-> msg,
             args |-> args, data |-> data]

\* a request can be handed to the application once the module is loaded
\* (startServer has run up to its first await) and until the process exits
Deliverable == db.status # "Initializing..." /\ ~db.exited

\* verifyFBToken, then the route's role gate, then the handler (handled:
\* what the handler does for the verified email)
Gated(route, h, handled) ==
    LET email == VerifyFBToken(h)
        role == RouteRole[route]
    IN  /\ Deliverable
        /\ UNCHANGED <<inflight, db>>
        /\ IF db.status # "Connected"
           THEN /\ Reply(route, h, 503, "database-unavailable")
                /\ UNCHANGED <<stores, inserted, now>>
           ELSE IF email = None
           THEN /\ Reply(route, h, 401, "unauthorized")
                /\ UNCHANGED <<stores, inserted, now>>
           ELSE IF ~db.handles
           THEN /\ Reply(route, h, NoResponse, "rejected-promise")
                /\ UNCHANGED <<stores, inserted, now>>
           ELSE IF role # None /\ ~RoleGate(email, role)
           THEN /\ Reply(route, h, 403, "forbidden")
                /\ UNCHANGED <<stores, inserted, now>>
           ELSE handled

(* ------------------------------ the state ----------------------------- *)
User(id, email, role) == [_id |-> ObjectId(id), email |-> email, role |-> role]

\* a text is the sequence of its characters
Physics == <<"P", "h", "y", "s", "i", "c", "s">>
Chemistry == <<"C", "h", "e", "m", "i", "s", "t", "r", "y">>
Dhaka == <<"D", "h", "a", "k", "a">>
Sylhet == <<"S", "y", "l", "h", "e", "t">>

\* the subject, class, location and salary of the seeded posts
Seeded ==
    (1 :> [subject |-> Physics, class |-> <<"1", "0">>, location |-> Dhaka,
           salary |-> <<"5", "0", "0", "0">>]) @@
    (2 :> [subject |-> Chemistry, class |-> <<"9">>, location |-> Sylhet,
           salary |-> <<"4", "5", "0", "0">>])

Tuition(id, owner, status) ==
    [_id |-> ObjectId(id), studentEmail |-> owner, studentId |-> None, status |-> status,
     assignedTutorEmail |-> None, assignedTutorId |-> None,
     subject |-> Seeded[id].subject, class |-> Seeded[id].class,
     location |-> Seeded[id].location, salary |-> Seeded[id].salary]

\* a conversation of two participants (POST /conversations)
Conversation(id, a, b) ==
    [_id |-> ObjectId(id), participants |-> <<a, b>>, lastMessage |-> None]

Idle == [pc |-> "idle", route |-> None, hdr |-> NoHeader, email |-> None,
         tuitionId |-> NoId, studentEmail |-> None]

\* requests being handled at the same time
MaxInflight == 2
Slots == 1..MaxInflight

\* the server's view of its database connection: dbStatus, whether the
\* collection handles are assigned, whether app.listen was called, whether
\* process.exit was
Loading == [status |-> "Initializing...", handles |-> FALSE, listening |-> FALSE, exited |-> FALSE]

Running == [status |-> "Connected", handles |-> TRUE, listening |-> TRUE, exited |-> FALSE]

\* the database after seed.js and the first logins: one student, two tutors,
\* an admin, and two approved tuition posts of the student
InitStores ==
    /\ users = <<User(1, "s1", "student"), User(2, "t1", "tutor"),
                 User(3, "t2", "tutor"), User(4, "a1", "admin")>>
    /\ tuitions = <<Tuition(1, "s1", "approved"), Tuition(2, "s1", "approved")>>
    /\ applications = <<>>
    /\ payments = <<>>
    /\ roleRequests = <<>>
    /\ reviews = <<>>
    /\ notifications = <<>>
    /\ conversations = <<Conversation(1, "s1", "t1")>>
    /\ messages = <<>>
    /\ inserted = [users |-> 4, applications |-> 0, roleRequests |-> 0,
                   tuitions |-> 2, reviews |-> 0, notifications |-> 0,
                   messages |-> 0]
    /\ now = 1
    /\ last = [route |-> None, hdr |-> NoHeader, status |-> NoResponse,
               msg |-> None, args |-> NoArgs, data |-> NoData]
    /\ inflight = [s \in Slots |-> Idle]

Init == InitStores /\ db = Running

\* the process as the module starts to load, before startServer is called
InitStartup == InitStores /\ db = Loading

(* --------------------------- applying to a post ----------------------- *)
\* applicationsCollection.findOne({ tutorEmail, tuitionId }) finds a document
AlreadyAppliedWhilePending(email, tuitionId) ==
    Found(applications, [tutorEmail |-> email, tuitionId |-> tuitionId,
                         status |-> "pending"])

AlreadyApplied(email, tuitionId) ==
    Found(applications, [tutorEmail |-> email, tuitionId |-> tuitionId])

\* what the handler answers once it has looked the post up, "open" when it
\* goes on to insert; only POST /apply-tuition looks at the assigned tutor
PostVerdict(route, tuitionId) ==
    LET byId == [_id |-> ObjectId(tuitionId)]
        tuition == FindOne(tuitions, byId)
    IN  IF ~Found(tuitions, byId) THEN [status |-> 404, msg |-> "not-found"]
        ELSE IF tuition.status # "approved"
        THEN [status |-> 403, msg |-> "not-open"]
        ELSE IF /\ route = "apply-tuition"
                /\ (tuition.assignedTutorEmail # None \/ tuition.assignedTutorId # None)
        THEN [status |-> 409, msg |-> "already-assigned"]
        ELSE [status |-> 200, msg |-> "open"]

\* studentEmail: tuition.studentId
OwnerRead(tuitionId) == FindOne(tuitions, [_id |-> ObjectId(tuitionId)]).studentId

NewApplication(email, tuitionId, studentEmail) ==
    [_id |-> ObjectId(inserted.applications + 1), tuitionId |-> tuitionId,
     tutorEmail |-> email, studentEmail |-> studentEmail,
     status |-> "pending", paymentId |-> None]

\* applicationsCollection.insertOne(newApplication)
InsertApplicationUnlessPresent(doc) ==
    /\ inserted.applications < MaxApps
    /\ applications' = IF AlreadyApplied(doc.tutorEmail, doc.tuitionId)
                       THEN applications
                       ELSE InsertOne(applications, doc)
    /\ inserted' = [inserted EXCEPT !.applications = @ + 1]

InsertApplication(doc) ==
    /\ inserted.applications < MaxApps
    /\ applications' = InsertOne(applications, doc)
    /\ inserted' = [inserted EXCEPT !.applications = @ + 1]

\* the handlers of POST /apply-tuition and POST /tuition-application, which
\* differ in the assigned-tutor test of PostVerdict
ApplyHandler(route, h, email, tuitionId) ==
    LET verdict == PostVerdict(route, tuitionId)
    IN  /\ UNCHANGED <<side, users, tuitions, payments, roleRequests, now>>
        /\ IF AlreadyApplied(email, tuitionId)
           THEN /\ Reply(route, h, 409, "already-applied")
                /\ UNCHANGED <<applications, inserted>>
           ELSE IF verdict.status # 200
           THEN /\ Reply(route, h, verdict.status, verdict.msg)
                /\ UNCHANGED <<applications, inserted>>
           ELSE /\ InsertApplication(
                        NewApplication(email, tuitionId, OwnerRead(tuitionId)))
                /\ Reply(route, h, 200, "inserted")

ApplyTuition(h, tuitionId) ==
    Gated("apply-tuition", h,
          ApplyHandler("apply-tuition", h, VerifyFBToken(h), tuitionId))

TuitionApplication(h, tuitionId) ==
    Gated("tuition-application", h,
          ApplyHandler("tuition-application", h, VerifyFBToken(h), tuitionId))

(* ------------- the apply handlers, one awaited call at a time ---------- *)
\* A request in flight occupies the first free slot; pc names the awaited
\* call it is about to make.  The verifier and the gate read only users.
ApplyStart(s, route, h, tuitionId) ==
    LET email == VerifyFBToken(h)
    IN  /\ Deliverable
        /\ UNCHANGED db
        /\ inflight[s].pc = "idle"
        /\ \A q \in Slots : q < s => inflight[q].pc # "idle"
        /\ UNCHANGED <<stores, inserted, now>>
        /\ IF db.status # "Connected"
           THEN Reply(route, h, 503, "database-unavailable") /\ UNCHANGED inflight
           ELSE IF email = None
           THEN Reply(route, h, 401, "unauthorized") /\ UNCHANGED inflight
           ELSE IF ~RoleGate(email, RouteRole[route])
           THEN Reply(route, h, 403, "forbidden") /\ UNCHANGED inflight
           ELSE /\ inflight' = [inflight EXCEPT ![s] =
                        [pc |-> "findOne-application", route |-> route,
                         hdr |-> h, email |-> email, tuitionId |-> tuitionId,
                         studentEmail |-> None]]
                /\ UNCHANGED last

\* await applicationsCollection.findOne({ tutorEmail, tuitionId })
ApplyCheck(s) ==
    LET r == inflight[s]
    IN  /\ UNCHANGED db
        /\ r.pc = "findOne-application"
        /\ UNCHANGED <<stores, inserted, now>>
        /\ IF AlreadyApplied(r.email, r.tuitionId)
           THEN /\ Reply(r.route, r.hdr, 409, "already-applied")
                /\ inflight' = [inflight EXCEPT ![s] = Idle]
           ELSE /\ inflight' = [inflight EXCEPT ![s].pc = "findOne-tuition"]
                /\ UNCHANGED last

\* await tuitionsPostCollection.findOne({ _id })
ApplyLoad(s) ==
    LET r == inflight[s]
        verdict == PostVerdict(r.route, r.tuitionId)
    IN  /\ UNCHANGED db
        /\ r.pc = "findOne-tuition"
        /\ UNCHANGED <<stores, inserted, now>>
        /\ IF verdict.status # 200
           THEN /\ Reply(r.route, r.hdr, verdict.status, verdict.msg)
                /\ inflight' = [inflight EXCEPT ![s] = Idle]
           ELSE /\ inflight' = [inflight EXCEPT
                        ![s].pc = "insertOne",
                        ![s].studentEmail = OwnerRead(r.tuitionId)]
                /\ UNCHANGED last

\* await applicationsCollection.insertOne(newApplication)
ApplyInsert(s) ==
    LET r == inflight[s]
    IN  /\ UNCHANGED db
        /\ r.pc = "insertOne"
        /\ InsertApplication(NewApplication(r.email, r.tuitionId, r.studentEmail))
        /\ Reply(r.route, r.hdr, 200, "inserted")
        /\ inflight' = [inflight EXCEPT ![s] = Idle]
        /\ UNCHANGED <<side, users, tuitions, payments, roleRequests, now>>

\* how many payment records carry this student's email
PaidBy(email) == Cardinality(Matching(payments, [studentEmail |-> email], NoFields))

(* --------------------------- Accept / Settle -------------------------- *)
\* The amount of a payment is not modelled: no handler reads it back.
\* A store write of a settle handler may throw.  failAt = 0: no write throws;
\* failAt = k: the k-th write of the handler throws, the writes before it
\* have been applied and the writes after it are never issued.
Written(k, failAt) == failAt = 0 \/ k < failAt

\* the handler of POST /process-payment (not wrapped by catchAsync: a
\* rejected promise is only logged by the unhandledRejection hook)
ProcessPaymentHandler(h, email, applicationId, tuitionId, tutorEmail, transactionId, failAt) ==
    LET route == "process-payment"
        payment == [transactionId |-> transactionId, studentEmail |-> email,
                    tutorEmail |-> tutorEmail, tuitionId |-> tuitionId,
                    applicationId |-> applicationId,
                    status |-> "paid",
                    method |-> "Demo Card"]
    IN  /\ failAt \in 0..3
        /\ PaidBy(email) < MaxPayments
        /\ payments' = IF Written(1, failAt)
                       THEN InsertOne(payments, payment) ELSE payments
        /\ applications' =
                IF Written(2, failAt)
                THEN UpdateOne(applications, [_id |-> ObjectId(applicationId)],
                               [status |-> "accepted"])
                ELSE applications
        /\ tuitions' =
                IF Written(3, failAt)
                THEN UpdateOne(tuitions, [_id |-> ObjectId(tuitionId)],
                               [assignedTutorEmail |-> tutorEmail])
                ELSE tuitions
        /\ IF failAt = 0
           THEN Reply(route, h, 200, "success")
           ELSE Reply(route, h, NoResponse, "rejected-promise")
        /\ UNCHANGED <<side, users, roleRequests, inserted, now>>

ProcessPayment(h, applicationId, tuitionId, tutorEmail, transactionId, failAt) ==
    Gated("process-payment", h,
          ProcessPaymentHandler(h, VerifyFBToken(h), applicationId, tuitionId,
                                tutorEmail, transactionId, failAt))

\* 'DEMO_' + new Date().getTime()
DemoId(time) == "DEMO_" \o ToString(time)

\* sessionId.startsWith('DEMO_')
StartsWithDemo(id) == \E time \in 0..now : id = DemoId(time)

\* the handler of POST /payments/demo (not wrapped by catchAsync).  The
\* clock has moved on by the time the handler's four awaited writes are done.
PaymentsDemoHandler(h, email, applicationId, tuitionId, tutorEmail, failAt) ==
    LET route == "payments/demo"
        transactionId == DemoId(now)
        payment == [transactionId |-> transactionId, studentEmail |-> email,
                    tutorEmail |-> tutorEmail, tuitionId |-> tuitionId,
                    applicationId |-> applicationId,
                    status |-> "paid",
                    method |-> "Demo PaymentSystem"]
        approved == IF Written(2, failAt)
                    THEN UpdateOne(applications, [_id |-> ObjectId(applicationId)],
                                   [status |-> "approved", paymentId |-> transactionId])
                    ELSE applications
    IN  /\ failAt \in 0..4
        /\ PaidBy(email) < MaxPayments
        /\ now' = now + 1
        /\ payments' = IF Written(1, failAt)
                       THEN InsertOne(payments, payment) ELSE payments
        /\ tuitions' =
                IF Written(3, failAt)
                THEN UpdateOne(tuitions, [_id |-> ObjectId(tuitionId)],
                               [assignedTutorEmail |-> tutorEmail,
                                assignedTutorId |-> tutorEmail])
                ELSE tuitions
        /\ applications' =
                IF Written(4, failAt)
                THEN UpdateMany(approved, [tuitionId |-> tuitionId],
                                [_id |-> ObjectId(applicationId)],
                                [status |-> "rejected"])
                ELSE approved
        /\ IF failAt = 0
           THEN Reply(route, h, 200, "success")
           ELSE Reply(route, h, NoResponse, "rejected-promise")
        /\ UNCHANGED <<side, users, roleRequests, inserted>>

PaymentsDemo(h, applicationId, tuitionId, tutorEmail, failAt) ==
    Gated("payments/demo", h,
          PaymentsDemoHandler(h, VerifyFBToken(h), applicationId, tuitionId,
                              tutorEmail, failAt))

\* the payment gateway: the checkout sessions it knows and the payment
\* intent of each (session.payment_intent)
PaymentIntent == ("cs_1" :> "pi_1") @@ ("cs_2" :> "pi_2") @@ ("cs_3" :> "pi_3")

\* paymentsCollection.findOne({ transactionId }) of POST /payment-success,
\* transactionId being the session's payment intent
AlreadyRecordedAsSession(sessionId) == Found(payments, [transactionId |-> sessionId])

AlreadyRecorded(sessionId) ==
    Found(payments, [transactionId |-> PaymentIntent[sessionId]])

\* the handler of POST /payment-success (its body is one try/catch).
\* session: what stripeClient.checkout.sessions.retrieve(sessionId) returns,
\* [payment_status, metadata]
PaymentSuccessHandler(h, email, sessionId, session, failAt) ==
    LET route == "payment-success"
        meta == session.metadata
        transactionId == PaymentIntent[sessionId]
        paymentRecord == [transactionId |-> transactionId,
                          studentEmail |-> meta.studentEmail,
                          tutorEmail |-> meta.tutorEmail,
                          tuitionId |-> meta.tuitionId,
                          applicationId |-> NoId,
                          status |-> "paid", method |-> "Stripe"]
        approved == IF Written(2, failAt)
                    THEN UpdateOne(applications,
                                   [_id |-> ObjectId(meta.applicationId)],
                                   [status |-> "approved", paymentId |-> transactionId])
                    ELSE applications
        Untouched == UNCHANGED <<tuitions, applications, payments>>
    IN  /\ UNCHANGED <<side, users, roleRequests, inserted, now>>
        /\ IF StartsWithDemo(sessionId)
           THEN /\ failAt = 0
                /\ Untouched
                /\ IF Found(payments, [transactionId |-> sessionId])
                   THEN Reply(route, h, 200, "verified-demo")
                   ELSE Reply(route, h, 200, "not-in-demo-records")
           ELSE IF sessionId \notin DOMAIN PaymentIntent
           THEN /\ failAt = 0
                /\ Untouched
                /\ Reply(route, h, 500, "verification-failed")
           ELSE IF session.payment_status # "paid"
           THEN /\ failAt = 0
                /\ Untouched
                /\ Reply(route, h, 400, "not-successful")
           ELSE IF AlreadyRecorded(sessionId)
           THEN /\ failAt = 0
                /\ Untouched
                /\ Reply(route, h, 200, "already-recorded")
           ELSE /\ failAt \in 0..4
                /\ PaidBy(meta.studentEmail) < MaxPayments
                /\ payments' = IF Written(1, failAt)
                               THEN InsertOne(payments, paymentRecord)
                               ELSE payments
                /\ tuitions' =
                        IF Written(3, failAt)
                        THEN UpdateOne(tuitions, [_id |-> ObjectId(meta.tuitionId)],
                                       [assignedTutorId |-> meta.tutorEmail,
                                        assignedTutorEmail |-> meta.tutorEmail])
                        ELSE tuitions
                /\ applications' =
                        IF Written(4, failAt)
                        THEN UpdateMany(approved, [tuitionId |-> meta.tuitionId],
                                        [_id |-> ObjectId(meta.applicationId)],
                                        [status |-> "rejected"])
                        ELSE approved
                /\ IF failAt = 0
                   THEN Reply(route, h, 200, "tutor-hired")
                   ELSE Reply(route, h, 500, "verification-failed")

PaymentSuccess(h, sessionId, session, failAt) ==
    Gated("payment-success", h,
          PaymentSuccessHandler(h, VerifyFBToken(h), sessionId, session, failAt))

(* ------------ the settle handlers, one awaited call at a time --------- *)
\* settle requests in flight, and the payments they are about to insert
Settling(student) ==
    Cardinality({s \in Slots : /\ inflight[s].pc \in {"findOne-payment", "insertOne-payment"}
                               /\ inflight[s].studentEmail = student})

\* a request that passed the verifier and the student gate, about to make
\* the awaited call pc names
SettleRequest(pc, route, h, email, body, studentEmail, transactionId, method) ==
    [pc |-> pc, route |-> route, hdr |-> h, email |-> email,
     tuitionId |-> body.tuitionId, studentEmail |-> studentEmail,
     applicationId |-> body.applicationId, tutorEmail |-> body.tutorEmail,
     transactionId |-> transactionId, method |-> method]

\* POST /payments/demo up to its first await: the transaction identifier is
\* taken from the clock, which may or may not have ticked since
DemoStart(s, h, body, tick) ==
    LET email == VerifyFBToken(h)
        route == "payments/demo"
    IN  /\ Deliverable
        /\ UNCHANGED db
        /\ inflight[s].pc = "idle"
        /\ \A q \in Slots : q < s => inflight[q].pc # "idle"
        /\ tick \in {0, 1}
        /\ UNCHANGED <<stores, inserted>>
        /\ IF db.status # "Connected"
           THEN Reply(route, h, 503, "database-unavailable") /\ UNCHANGED <<inflight, now>>
           ELSE IF email = None
           THEN Reply(route, h, 401, "unauthorized") /\ UNCHANGED <<inflight, now>>
           ELSE IF ~RoleGate(email, RouteRole[route])
           THEN Reply(route, h, 403, "forbidden") /\ UNCHANGED <<inflight, now>>
           ELSE /\ PaidBy(email) + Settling(email) < MaxPayments
                /\ now' = now + tick
                /\ inflight' = [inflight EXCEPT ![s] =
                        SettleRequest("insertOne-payment", route, h, email, body,
                                      email, DemoId(now'), "Demo PaymentSystem")]
                /\ UNCHANGED last

\* POST /payment-success up to its lookup of the transaction: the gateway
\* is asked for the session
SuccessStart(s, h, sessionId, session) ==
    LET email == VerifyFBToken(h)
        route == "payment-success"
        meta == session.metadata
    IN  /\ Deliverable
        /\ UNCHANGED db
        /\ inflight[s].pc = "idle"
        /\ \A q \in Slots : q < s => inflight[q].pc # "idle"
        /\ sessionId \in DOMAIN PaymentIntent
        /\ UNCHANGED <<stores, inserted, now>>
        /\ IF db.status # "Connected"
           THEN Reply(route, h, 503, "database-unavailable") /\ UNCHANGED inflight
           ELSE IF email = None
           THEN Reply(route, h, 401, "unauthorized") /\ UNCHANGED inflight
           ELSE IF ~RoleGate(email, RouteRole[route])
           THEN Reply(route, h, 403, "forbidden") /\ UNCHANGED inflight
           ELSE IF session.payment_status # "paid"
           THEN Reply(route, h, 400, "not-successful") /\ UNCHANGED inflight
           ELSE /\ PaidBy(meta.studentEmail) + Settling(meta.studentEmail) < MaxPayments
                /\ inflight' = [inflight EXCEPT ![s] =
                        SettleRequest("findOne-payment", route, h, email, meta,
                                      meta.studentEmail, PaymentIntent[sessionId],
                                      "Stripe")]
                /\ UNCHANGED last

\* await paymentsCollection.findOne({ transactionId })
SuccessLookup(s) ==
    LET r == inflight[s]
    IN  /\ UNCHANGED db
        /\ r.pc = "findOne-payment"
        /\ UNCHANGED <<stores, inserted, now>>
        /\ IF Found(payments, [transactionId |-> r.transactionId])
           THEN /\ Reply(r.route, r.hdr, 200, "already-recorded")
                /\ inflight' = [inflight EXCEPT ![s] = Idle]
           ELSE /\ inflight' = [inflight EXCEPT ![s].pc = "insertOne-payment"]
                /\ UNCHANGED last

\* await paymentsCollection.insertOne(payment)
SettlePay(s) ==
    LET r == inflight[s]
        payment == [transactionId |-> r.transactionId, studentEmail |-> r.studentEmail,
                    tutorEmail |-> r.tutorEmail, tuitionId |-> r.tuitionId,
                    applicationId |-> IF r.route = "payment-success" THEN NoId
                                      ELSE r.applicationId,
                    status |-> "paid", method |-> r.method]
    IN  /\ UNCHANGED db
        /\ r.pc = "insertOne-payment"
        /\ payments' = InsertOne(payments, payment)
        /\ inflight' = [inflight EXCEPT ![s].pc = "updateOne-application"]
        /\ UNCHANGED <<side, users, tuitions, applications, roleRequests,
                       inserted, now, last>>

\* await applicationsCollection.updateOne({ _id }, { $set: { status:
\* 'approved', paymentId } })
SettleApprove(s) ==
    LET r == inflight[s]
    IN  /\ UNCHANGED db
        /\ r.pc = "updateOne-application"
        /\ applications' = UpdateOne(applications, [_id |-> ObjectId(r.applicationId)],
                                     [status |-> "approved", paymentId |-> r.transactionId])
        /\ inflight' = [inflight EXCEPT ![s].pc = "updateOne-tuition"]
        /\ UNCHANGED <<side, users, tuitions, payments, roleRequests,
                       inserted, now, last>>

\* await tuitionsPostCollection.updateOne({ _id }, { $set: {
\* assignedTutorEmail, assignedTutorId } })
SettleAssign(s) ==
    LET r == inflight[s]
    IN  /\ UNCHANGED db
        /\ r.pc = "updateOne-tuition"
        /\ tuitions' = UpdateOne(tuitions, [_id |-> ObjectId(r.tuitionId)],
                                 [assignedTutorId |-> r.tutorEmail,
                                  assignedTutorEmail |-> r.tutorEmail])
        /\ inflight' = [inflight EXCEPT ![s].pc = "updateMany-applications"]
        /\ UNCHANGED <<side, users, applications, payments, roleRequests,
                       inserted, now, last>>

\* updateMany({ tuitionId, _id: { $ne } }, { $set: { status: 'rejected' } })
RejectOthersStillPending(apps, tuitionId, applicationId) == [i \in 1..Len(apps) |-> IF Matches(apps[i], [tuitionId |-> tuitionId, status |-> "pending"], [_id |-> ObjectId(applicationId)]) THEN SetFields(apps[i], [status |-> "rejected"]) ELSE apps[i]]

RejectOthers(apps, tuitionId, applicationId) ==
    UpdateMany(apps, [tuitionId |-> tuitionId], [_id |-> ObjectId(applicationId)],
               [status |-> "rejected"])

\* await applicationsCollection.updateMany(...), then the response
SettleRejectOthers(s) ==
    LET r == inflight[s]
    IN  /\ UNCHANGED db
        /\ r.pc = "updateMany-applications"
        /\ applications' = RejectOthers(applications, r.tuitionId, r.applicationId)
        /\ IF r.route = "payment-success"
           THEN Reply(r.route, r.hdr, 200, "tutor-hired")
           ELSE Reply(r.route, r.hdr, 200, "success")
        /\ inflight' = [inflight EXCEPT ![s] = Idle]
        /\ UNCHANGED <<side, users, tuitions, payments, roleRequests, inserted, now>>

\* what GET /student-applications/:studentId finds for the caller:
\* applicationsCollection.find({ studentEmail: studentId })
StudentApplications(studentId) ==
    SelectSeq(applications, LAMBDA a : a.studentEmail = studentId)

(* ------------------- the other writers of applications ---------------- *)
\* the handler of PATCH /applications/:id
PatchApplicationHandler(h, email, id, status) ==
    /\ applications' = UpdateOne(applications, [_id |-> ObjectId(id)],
                                 [status |-> status])
    /\ Reply("applications/:id", h, 200, "updated")
    /\ UNCHANGED <<side, users, tuitions, payments, roleRequests, inserted, now>>

PatchApplication(h, id, status) ==
    Gated("applications/:id", h,
          PatchApplicationHandler(h, VerifyFBToken(h), id, status))

\* the handler of POST /reject-tutor
RejectTutorHandler(h, email, applicationId) ==
    /\ applications' = UpdateOne(applications, [_id |-> ObjectId(applicationId)],
                                 [status |-> "rejected"])
    /\ Reply("reject-tutor", h, 200, "updated")
    /\ UNCHANGED <<side, users, tuitions, payments, roleRequests, inserted, now>>

RejectTutor(h, applicationId) ==
    Gated("reject-tutor", h,
          RejectTutorHandler(h, VerifyFBToken(h), applicationId))

\* the handler of DELETE /applications/:id
DeleteApplicationHandler(h, email, id) ==
    /\ applications' = DeleteOne(applications, [_id |-> ObjectId(id)])
    /\ Reply("delete-application", h, 200, "deleted")
    /\ UNCHANGED <<side, users, tuitions, payments, roleRequests, inserted, now>>

DeleteApplication(h, id) ==
    Gated("delete-application", h,
          DeleteApplicationHandler(h, VerifyFBToken(h), id))

(* ------------------------- users and their roles ---------------------- *)
\* POST /user (no verifier, no gate): the body is stored as it came
PostUser(email, role) ==
    /\ Deliverable
    /\ UNCHANGED db
    /\ UNCHANGED <<side, tuitions, applications, payments, roleRequests, now, inflight>>
    /\ IF db.status # "Connected"
       THEN /\ Reply("user", NoHeader, 503, "database-unavailable")
            /\ UNCHANGED <<users, inserted>>
       ELSE IF Found(users, [email |-> email])
       THEN /\ Reply("user", NoHeader, 200, "exists")
            /\ UNCHANGED <<users, inserted>>
       ELSE /\ inserted.users < 4 + MaxNewUsers
            /\ users' = InsertOne(users, User(inserted.users + 1, email, role))
            /\ inserted' = [inserted EXCEPT !.users = @ + 1]
            /\ Reply("user", NoHeader, 200, "inserted")

\* the handler of PATCH /update-role/:id
UpdateRoleHandler(h, email, id, role) ==
    /\ users' = UpdateOne(users, [_id |-> ObjectId(id)], [role |-> role])
    /\ Reply("update-role", h, 200, "updated")
    /\ UNCHANGED <<side, tuitions, applications, payments, roleRequests, inserted, now>>

UpdateRole(h, id, role) ==
    Gated("update-role", h, UpdateRoleHandler(h, VerifyFBToken(h), id, role))

\* the handler of DELETE /user/:id
DeleteUserHandler(h, email, id) ==
    /\ users' = DeleteOne(users, [_id |-> ObjectId(id)])
    /\ Reply("delete-user", h, 200, "deleted")
    /\ UNCHANGED <<side, tuitions, applications, payments, roleRequests, inserted, now>>

DeleteUser(h, id) ==
    Gated("delete-user", h, DeleteUserHandler(h, VerifyFBToken(h), id))

\* the handler of POST /role-requests
PostRoleRequestHandler(h, email) ==
    /\ UNCHANGED <<side, users, tuitions, applications, payments, now>>
    /\ IF Found(roleRequests, [userId |-> email, status |-> "pending"])
       THEN /\ Reply("role-requests", h, 409, "pending-exists")
            /\ UNCHANGED <<roleRequests, inserted>>
       ELSE /\ inserted.roleRequests < MaxRoleRequests
            /\ roleRequests' = InsertOne(roleRequests,
                    [_id |-> ObjectId(inserted.roleRequests + 1),
                     userId |-> email, userEmail |-> email,
                     status |-> "pending", reviewedBy |-> None])
            /\ inserted' = [inserted EXCEPT !.roleRequests = @ + 1]
            /\ Reply("role-requests", h, 200, "inserted")

PostRoleRequest(h) ==
    Gated("role-requests", h, PostRoleRequestHandler(h, VerifyFBToken(h)))

\* the handler of PATCH /role-requests/:id
PatchRoleRequestHandler(h, email, id, status) ==
    LET byId == [_id |-> ObjectId(id)]
        request == FindOne(roleRequests, byId)
    IN  /\ UNCHANGED <<side, tuitions, applications, payments, inserted, now>>
        /\ IF ~Found(roleRequests, byId)
           THEN /\ Reply("role-requests/:id", h, 404, "not-found")
                /\ UNCHANGED <<users, roleRequests>>
           ELSE /\ users' = IF status = "approved"
                            THEN UpdateOne(users, [email |-> request.userEmail],
                                           [role |-> "tutor"])
                            ELSE users
                /\ roleRequests' = UpdateOne(roleRequests, byId,
                        [status |-> status, reviewedBy |-> email])
                /\ Reply("role-requests/:id", h, 200, "updated")

PatchRoleRequest(h, id, status) ==
    Gated("role-requests/:id", h,
          PatchRoleRequestHandler(h, VerifyFBToken(h), id, status))

(* --------------------------- texts and numbers ------------------------ *)
\* the lower-case form of the upper-case characters in use
LowerCase == ("P" :> "p") @@ ("C" :> "c") @@ ("D" :> "d") @@ ("S" :> "s")

ToLower(c) == IF c \in DOMAIN LowerCase THEN LowerCase[c] ELSE c

\* new RegExp(pattern) throws: an opening parenthesis that is never closed
InvalidRegex(pattern) == \E i \in 1..Len(pattern) : pattern[i] = "("

\* the pattern matches the text at position k, case ignored; "." is any
\* character
MatchesAt(text, pattern, k) ==
    \A j \in 1..Len(pattern) :
        pattern[j] = "." \/ ToLower(pattern[j]) = ToLower(text[k + j - 1])

\* { $regex: pattern, $options: 'i' }: the pattern matches somewhere in text
RegexTest(text, pattern) ==
    \E k \in 1..(Len(text) - Len(pattern) + 1) : MatchesAt(text, pattern, k)

DigitValue ==
    ("0" :> 0) @@ ("1" :> 1) @@ ("2" :> 2) @@ ("3" :> 3) @@ ("4" :> 4) @@
    ("5" :> 5) @@ ("6" :> 6) @@ ("7" :> 7) @@ ("8" :> 8) @@ ("9" :> 9)

NaN == [nan |-> TRUE, n |-> 0]

\* the value of the longest run of digits text starts with, after acc
RECURSIVE LeadingDigits(_, _)
LeadingDigits(text, acc) ==
    IF text = <<>> \/ Head(text) \notin DOMAIN DigitValue THEN acc
    ELSE LeadingDigits(Tail(text), 10 * acc + DigitValue[Head(text)])

\* parseInt(text): NaN unless text starts with digits after an optional sign
ParseInt(text) ==
    LET negative == text # <<>> /\ Head(text) = "-"
        digits == IF negative THEN Tail(text) ELSE text
    IN  IF digits = <<>> \/ Head(digits) \notin DOMAIN DigitValue THEN NaN
        ELSE [nan |-> FALSE,
              n |-> IF negative THEN 0 - LeadingDigits(digits, 0)
                    ELSE LeadingDigits(digits, 0)]

\* parseInt(text) || dflt
ParseIntOr(text, dflt) ==
    IF ParseInt(text).nan \/ ParseInt(text).n = 0 THEN dflt ELSE ParseInt(text).n

\* a < b for strings, character by character (digits only)
RECURSIVE StringLess(_, _)
StringLess(a, b) ==
    IF b = <<>> THEN FALSE
    ELSE IF a = <<>> THEN TRUE
    ELSE IF Head(a) = Head(b) THEN StringLess(Tail(a), Tail(b))
    ELSE DigitValue[Head(a)] < DigitValue[Head(b)]

(* ------------------------------ profiles ------------------------------ *)
\* the fields of a record that carry a value (an undefined one is left out)
Defined(fields) == [k \in {f \in DOMAIN fields : fields[f] # None} |-> fields[k]]

\* updateFields of PUT /user/profile: phone, photoURL (or image) and, when a
\* displayName is sent, name; undefined ones deleted
ProfileFieldsAsSent(item) == Defined(item)

ProfileFields(item) ==
    Defined([phone |-> item.phone,
             photoURL |-> IF item.photoURL # None THEN item.photoURL ELSE item.image,
             name |-> item.displayName])

\* the handler of PUT /user/profile (verifier only, not wrapped).  A store
\* that refuses an empty $set makes the promise reject: nothing is sent.
PutUserProfileHandler(h, email, item) ==
    /\ UNCHANGED <<side, tuitions, applications, payments, roleRequests, inserted, now>>
    /\ \/ /\ users' = UpdateOne(users, [email |-> email], ProfileFields(item))
          /\ Reply("user/profile", h, 200, "updated")
       \/ /\ DOMAIN ProfileFields(item) = {}
          /\ users' = users
          /\ Reply("user/profile", h, NoResponse, "rejected-promise")

PutUserProfile(h, item) ==
    Gated("user/profile", h, PutUserProfileHandler(h, VerifyFBToken(h), item))

\* the handler of PUT /tutor/profile: every listed field is set, an undefined
\* one as null; hourlyRate: parseInt(hourlyRate)
Null == "null"

OrNull(v) == IF v = None THEN Null ELSE v

TutorProfileFields(body, at) ==
    [updated_at |-> at,
     qualification |-> OrNull(body.qualification),
     experience |-> OrNull(body.experience),
     subjects |-> OrNull(body.subjects),
     bio |-> OrNull(body.bio),
     hourlyRate |-> ParseInt(body.hourlyRate),
     location |-> OrNull(body.location)]

PutTutorProfileHandler(h, email, body) ==
    /\ users' = UpdateOne(users, [email |-> email], TutorProfileFields(body, now))
    /\ Reply("tutor/profile", h, 200, "updated")
    /\ UNCHANGED <<side, tuitions, applications, payments, roleRequests, inserted, now>>

PutTutorProfile(h, body) ==
    Gated("tutor/profile", h, PutTutorProfileHandler(h, VerifyFBToken(h), body))

(* ----------------------------- tuition posts -------------------------- *)
\* the handler of POST /tuitions (wrapped by catchAsync).  body: what the
\* client sent, its status field included; notifyFails: the insertMany of
\* the tutors' notifications throws inside the inner try
NewTuitionAsSent(email, body) ==
    [_id |-> ObjectId(inserted.tuitions + 1), studentEmail |-> email,
     studentId |-> None,
     status |-> IF body.status = None THEN "pending" ELSE body.status,
     assignedTutorEmail |-> None, assignedTutorId |-> None,
     subject |-> body.subject, class |-> body.class,
     location |-> body.location, salary |-> body.salary]

NewTuition(email, body) ==
    [_id |-> ObjectId(inserted.tuitions + 1), studentEmail |-> email,
     studentId |-> None, status |-> "pending",
     assignedTutorEmail |-> None, assignedTutorId |-> None,
     subject |-> body.subject, class |-> body.class,
     location |-> body.location, salary |-> body.salary]

\* the notification documents, in the order given
RECURSIVE InsertMany(_, _, _)
InsertMany(coll, docs, firstId) ==
    IF docs = <<>> THEN coll
    ELSE InsertMany(Append(coll, [Head(docs) EXCEPT !._id = ObjectId(firstId)]),
                    Tail(docs), firstId + 1)

Notification(userEmail, type) ==
    [_id |-> ObjectId(NoId), userEmail |-> userEmail, type |-> type, read |-> FALSE]

\* usersCollection.find({ role: 'tutor' }) mapped to a notification each
TutorNotifications ==
    LET tutors == SelectSeq(users, LAMBDA u : u.role = "tutor")
    IN  [i \in 1..Len(tutors) |-> Notification(tutors[i].email, "application")]

PostTuitionsHandler(h, email, body, notifyFails) ==
    /\ inserted.tuitions < 2 + MaxNewTuitions
    /\ tuitions' = InsertOne(tuitions, NewTuition(email, body))
    /\ IF notifyFails \/ TutorNotifications = <<>>
       THEN /\ notifications' = notifications
            /\ inserted' = [inserted EXCEPT !.tuitions = @ + 1]
       ELSE /\ inserted.notifications + Len(TutorNotifications) <= MaxNotifications
            /\ notifications' = InsertMany(notifications, TutorNotifications,
                                           inserted.notifications + 1)
            /\ inserted' = [inserted EXCEPT
                    !.tuitions = @ + 1,
                    !.notifications = @ + Len(TutorNotifications)]
    /\ Reply("tuitions", h, 200, "inserted")
    /\ UNCHANGED <<users, applications, payments, roleRequests, reviews,
                   conversations, messages, now>>

PostTuitions(h, body, notifyFails) ==
    Gated("tuitions", h, PostTuitionsHandler(h, VerifyFBToken(h), body, notifyFails))

\* the handler of PATCH /tuition-status/:id
TuitionStatusHandler(h, email, id, status) ==
    /\ tuitions' = UpdateOne(tuitions, [_id |-> ObjectId(id)], [status |-> status])
    /\ Reply("tuition-status", h, 200, "updated")
    /\ UNCHANGED <<side, users, applications, payments, roleRequests, inserted, now>>

TuitionStatus(h, id, status) ==
    Gated("tuition-status", h, TuitionStatusHandler(h, VerifyFBToken(h), id, status))

\* the filter of PUT /tuition/:id and of DELETE /tuition/:id
PostOfAnyone(id, email) == [_id |-> ObjectId(id)]

OwnPost(id, email) == [_id |-> ObjectId(id), studentEmail |-> email]

\* the $set of PUT /tuition/:id: the listed fields of the body and the time
TuitionEdit(body, at) ==
    [subject |-> body.subject, class |-> body.class, location |-> body.location,
     salary |-> body.salary, updated_at |-> at]

\* the handler of PUT /tuition/:id (no try/catch and no catchAsync: a store
\* call that throws leaves the request unanswered)
PutTuitionHandler(h, email, id, body, fails) ==
    /\ UNCHANGED <<side, users, applications, payments, roleRequests, inserted, now>>
    /\ IF fails
       THEN /\ tuitions' = tuitions
            /\ ReplyData("put-tuition", h, [id |-> id], NoResponse, "rejected-promise", NoData)
       ELSE IF ~Found(tuitions, OwnPost(id, email))
       THEN /\ tuitions' = tuitions
            /\ ReplyData("put-tuition", h, [id |-> id], 404, "not-found-or-unauthorized", NoData)
       ELSE /\ tuitions' = UpdateOne(tuitions, OwnPost(id, email), TuitionEdit(body, now))
            /\ ReplyData("put-tuition", h, [id |-> id], 200, "updated", NoData)

PutTuition(h, id, body, fails) ==
    Gated("put-tuition", h, PutTuitionHandler(h, VerifyFBToken(h), id, body, fails))

\* the handler of DELETE /tuition/:id (wrapped by catchAsync)
DeleteTuitionHandler(h, email, id, fails) ==
    /\ UNCHANGED <<side, users, applications, payments, roleRequests, inserted, now>>
    /\ IF fails
       THEN /\ tuitions' = tuitions
            /\ ReplyData("delete-tuition", h, [id |-> id], 500, "failed", NoData)
       ELSE IF ~Found(tuitions, OwnPost(id, email))
       THEN /\ tuitions' = tuitions
            /\ ReplyData("delete-tuition", h, [id |-> id], 404, "not-found-or-unauthorized", NoData)
       ELSE /\ tuitions' = DeleteOne(tuitions, OwnPost(id, email))
            /\ ReplyData("delete-tuition", h, [id |-> id], 200, "deleted", NoData)

DeleteTuition(h, id, fails) ==
    Gated("delete-tuition", h, DeleteTuitionHandler(h, VerifyFBToken(h), id, fails))

(* ------------------------------- reviews ------------------------------ *)
\* Number(text): 0 for the empty text, the value of an all-digit text, NaN
\* for any other
ToNumber(text) ==
    IF text = <<>> THEN [nan |-> FALSE, n |-> 0]
    ELSE IF \A i \in 1..Len(text) : text[i] \in DOMAIN DigitValue
         THEN [nan |-> FALSE, n |-> LeadingDigits(text, 0)]
         ELSE NaN

\* student?.displayName || student?.name || 'Anonymous'
ReviewerName(student) ==
    IF "displayName" \in DOMAIN student THEN student.displayName
    ELSE IF "name" \in DOMAIN student THEN student.name
    ELSE "Anonymous"

\* the check of POST /reviews for an earlier review of the pair
AlreadyReviewedTuition(email, body) ==
    Found(reviews, [studentEmail |-> email, tutorEmail |-> body.tutorEmail,
                    tuitionId |-> body.tuitionId])

AlreadyReviewed(email, body) ==
    Found(reviews, [studentEmail |-> email, tutorEmail |-> body.tutorEmail])

\* the answer of POST /reviews once the review is stored and the
\* notification insert has thrown or not
ReviewAnswer(notified) ==
    IF notified THEN [status |-> 200, msg |-> "inserted"]
    ELSE [status |-> 500, msg |-> "failed"]

\* the handler of POST /reviews (its body is one try/catch).  failAt: which
\* of its two writes throws (1 the review insert, 2 the notification insert).
PostReviewsHandler(h, email, body, failAt) ==
    LET route == "reviews"
        byPair == [studentEmail |-> email, tutorEmail |-> body.tutorEmail]
        review == [_id |-> ObjectId(inserted.reviews + 1),
                   tutorEmail |-> body.tutorEmail, studentEmail |-> email,
                   reviewerName |-> ReviewerName(FindOne(users, [email |-> email])),
                   tuitionId |-> body.tuitionId,
                   rating |-> ToNumber(body.rating)]
        notice == [Notification(body.tutorEmail, "review") EXCEPT
                        !._id = ObjectId(inserted.notifications + 1)]
    IN  /\ failAt \in 0..2
        /\ UNCHANGED <<users, tuitions, applications, payments, roleRequests,
                       conversations, messages, now>>
        /\ IF \/ ~Found(payments, byPair)
              \/ FindOne(payments, byPair).status # "paid"
           THEN /\ ReplyData(route, h, body, 403, "no-paid-payment", NoData)
                /\ UNCHANGED <<reviews, notifications, inserted>>
           ELSE IF AlreadyReviewed(email, body)
           THEN /\ ReplyData(route, h, body, 409, "already-reviewed", NoData)
                /\ UNCHANGED <<reviews, notifications, inserted>>
           ELSE IF ~Written(1, failAt)
           THEN /\ ReplyData(route, h, body, 500, "failed", NoData)
                /\ UNCHANGED <<reviews, notifications, inserted>>
           ELSE /\ inserted.reviews < MaxReviews
                /\ reviews' = InsertOne(reviews, review)
                /\ IF Written(2, failAt)
                   THEN /\ inserted.notifications < MaxNotifications
                        /\ notifications' = InsertOne(notifications, notice)
                        /\ inserted' = [inserted EXCEPT !.reviews = @ + 1,
                                                        !.notifications = @ + 1]
                   ELSE /\ notifications' = notifications
                        /\ inserted' = [inserted EXCEPT !.reviews = @ + 1]
                /\ ReplyData(route, h, body, ReviewAnswer(Written(2, failAt)).status,
                             ReviewAnswer(Written(2, failAt)).msg, NoData)

PostReviews(h, body, failAt) ==
    Gated("reviews", h, PostReviewsHandler(h, VerifyFBToken(h), body, failAt))

\* reviews.reduce((sum, r) => sum + r.rating, 0)
RECURSIVE TotalRating(_)
TotalRating(rs) ==
    IF rs = <<>> THEN [nan |-> FALSE, n |-> 0]
    ELSE IF Head(rs).rating.nan \/ TotalRating(Tail(rs)).nan THEN NaN
    ELSE [nan |-> FALSE, n |-> Head(rs).rating.n + TotalRating(Tail(rs)).n]

\* parseFloat((total / count).toFixed(1)), in tenths: the nearest tenth, the
\* larger one of two equally near
AverageWhole(total, count) == [nan |-> total.nan, tenths |-> IF total.nan THEN 0 ELSE 10 * ((2 * total.n + count) \div (2 * count))]

Average(total, count) == [nan |-> total.nan, tenths |-> IF total.nan THEN 0 ELSE (20 * total.n + count) \div (2 * count)]

\* GET /tutor-rating/:tutorEmail (public; its body is one try/catch)
GetTutorRating(tutorEmail, fails) ==
    LET found == SelectSeq(reviews, LAMBDA r : r.tutorEmail = tutorEmail)
        args == [tutorEmail |-> tutorEmail]
    IN  /\ Deliverable
        /\ UNCHANGED db
        /\ UNCHANGED <<stores, inserted, now, inflight>>
        /\ IF db.status # "Connected"
           THEN ReplyData("tutor-rating", NoHeader, args, 503, "database-unavailable", NoData)
           ELSE IF fails
           THEN ReplyData("tutor-rating", NoHeader, args, 500, "failed", NoData)
           ELSE IF Len(found) = 0
           THEN ReplyData("tutor-rating", NoHeader, args, 200, "rating",
                          [averageRating |-> [nan |-> FALSE, tenths |-> 0],
                           totalReviews |-> 0])
           ELSE ReplyData("tutor-rating", NoHeader, args, 200, "rating",
                          [averageRating |-> Average(TotalRating(found), Len(found)),
                           totalReviews |-> Len(found)])

(* ---------------------------- notifications --------------------------- *)
\* the filter of the updateMany of PATCH /notifications/read-all
UnreadOfAnyone(userEmail) == [read |-> FALSE]

UnreadOf(userEmail) == [userEmail |-> userEmail, read |-> FALSE]

\* the handler of PATCH /notifications/read-all (its body is one try/catch)
NotificationsReadAllHandler(h, email, fails) ==
    /\ UNCHANGED <<users, tuitions, applications, payments, roleRequests,
                   reviews, conversations, messages, inserted, now>>
    /\ IF fails
       THEN /\ notifications' = notifications
            /\ Reply("notifications/read-all", h, 500, "failed")
       ELSE /\ notifications' = UpdateMany(notifications, UnreadOf(email),
                                           NoFields, [read |-> TRUE])
            /\ Reply("notifications/read-all", h, 200, "success")

NotificationsReadAll(h, fails) ==
    Gated("notifications/read-all", h,
          NotificationsReadAllHandler(h, VerifyFBToken(h), fails))

\* the handler of PATCH /notifications/:id/read (its body is one try/catch)
NotificationReadHandler(h, email, id, fails) ==
    /\ UNCHANGED <<users, tuitions, applications, payments, roleRequests,
                   reviews, conversations, messages, inserted, now>>
    /\ IF fails
       THEN /\ notifications' = notifications
            /\ Reply("notifications/:id/read", h, 500, "failed")
       ELSE /\ notifications' = UpdateOne(notifications, [_id |-> ObjectId(id)],
                                          [read |-> TRUE])
            /\ Reply("notifications/:id/read", h, 200, "success")

NotificationRead(h, id, fails) ==
    Gated("notifications/:id/read", h,
          NotificationReadHandler(h, VerifyFBToken(h), id, fails))

\* the handler of DELETE /notifications/:id (its body is one try/catch)
DeleteNotificationHandler(h, email, id, fails) ==
    /\ UNCHANGED <<users, tuitions, applications, payments, roleRequests,
                   reviews, conversations, messages, inserted, now>>
    /\ IF fails
       THEN /\ notifications' = notifications
            /\ Reply("delete-notification", h, 500, "failed")
       ELSE /\ notifications' = DeleteOne(notifications, [_id |-> ObjectId(id)])
            /\ Reply("delete-notification", h, 200, "success")

DeleteNotification(h, id, fails) ==
    Gated("delete-notification", h,
          DeleteNotificationHandler(h, VerifyFBToken(h), id, fails))

(* ------------------------------ messages ------------------------------ *)
\* email.toLowerCase(), on the spellings of an email that occur
EmailLowerCase ==
    ("s1" :> "s1") @@ ("t1" :> "t1") @@ ("t2" :> "t2") @@ ("a1" :> "a1") @@
    ("g1" :> "g1") @@ ("S1" :> "s1") @@ ("T1" :> "t1")

\* conv.participants.find(p => p.toLowerCase() !== senderEmail)
Recipient(participants, senderEmail) ==
    LET others == {i \in 1..Len(participants) :
                        EmailLowerCase[participants[i]] # senderEmail}
    IN  IF others = {} THEN None ELSE participants[Min(others)]

\* the answer of POST /messages once the message is stored and the
\* conversation updated
MessageAnswer(failed) ==
    IF failed THEN [status |-> 500, msg |-> "failed"]
    ELSE [status |-> 200, msg |-> "sent"]

\* the handler of POST /messages (its body is one try/catch).  failAt: which
\* of its three writes throws (1 the message insert, 2 the conversation
\* update, 3 the notification insert); reading participants of a
\* conversation that was not found throws as well.
PostMessagesHandler(h, email, body, failAt) ==
    LET route == "messages"
        senderEmail == EmailLowerCase[email]
        byId == [_id |-> ObjectId(body.conversationId)]
        message == [_id |-> ObjectId(inserted.messages + 1),
                    conversationId |-> body.conversationId,
                    senderEmail |-> senderEmail, content |-> body.content,
                    read |-> FALSE]
        updated == UpdateOne(conversations, byId, [lastMessage |-> body.content])
        known == Found(conversations, byId)
        recipientEmail == IF known
                          THEN Recipient(FindOne(conversations, byId).participants,
                                         senderEmail)
                          ELSE None
        notice == [Notification(recipientEmail, "message") EXCEPT
                        !._id = ObjectId(inserted.notifications + 1)]
        notifies == Written(3, failAt) /\ recipientEmail # None
    IN  /\ failAt \in 0..3
        /\ UNCHANGED <<users, tuitions, applications, payments, roleRequests,
                       reviews, now>>
        /\ IF ~Written(1, failAt)
           THEN /\ UNCHANGED <<messages, conversations, notifications, inserted>>
                /\ Reply(route, h, 500, "failed")
           ELSE /\ inserted.messages < MaxMessages
                /\ messages' = InsertOne(messages, message)
                /\ conversations' = IF Written(2, failAt) THEN updated
                                    ELSE conversations
                /\ IF notifies
                   THEN /\ inserted.notifications < MaxNotifications
                        /\ notifications' = InsertOne(notifications, notice)
                        /\ inserted' = [inserted EXCEPT !.messages = @ + 1,
                                                        !.notifications = @ + 1]
                   ELSE /\ notifications' = notifications
                        /\ inserted' = [inserted EXCEPT !.messages = @ + 1]
                /\ Reply(route, h, MessageAnswer(failAt # 0 \/ ~known).status,
                         MessageAnswer(failAt # 0 \/ ~known).msg)

PostMessages(h, body, failAt) ==
    Gated("messages", h, PostMessagesHandler(h, VerifyFBToken(h), body, failAt))

(* --------------------------- the public listing ----------------------- *)
\* GET /tuitions is registered twice; the first registration (no verifier)
\* always answers, so the second (tutor, with a status parameter) never runs.
\* query: [search, subject, location, stuClass, sort, page, limit, status],
\* an absent or empty parameter being <<>> (None for sort and status)
ListingFilterByStatusParameter(t, query) ==
    /\ t.status = IF query.status = None THEN "approved" ELSE query.status
    /\ query.search # <<>> =>
            RegexTest(t.subject, query.search) \/ RegexTest(t.location, query.search)
    /\ query.subject # <<>> => RegexTest(t.subject, query.subject)
    /\ query.location # <<>> => RegexTest(t.location, query.location)
    /\ query.stuClass # <<>> => RegexTest(t.class, query.stuClass)

ListingFilter(t, query) ==
    /\ t.status = "approved"
    /\ query.search # <<>> =>
            RegexTest(t.subject, query.search) \/ RegexTest(t.location, query.search)
    /\ query.subject # <<>> => RegexTest(t.subject, query.subject)
    /\ query.location # <<>> => RegexTest(t.location, query.location)
    /\ query.stuClass # <<>> => RegexTest(t.class, query.stuClass)

\* the positions of the posts the query document selects
Listed(query) == {i \in 1..Len(tuitions) : ListingFilter(tuitions[i], query)}

\* i may come before j under sortOptions: created_at descending is the
\* reverse of insertion order, the seeded posts sharing one created_at
SortedBefore(i, j, sort) ==
    IF sort = "price_asc" THEN ~StringLess(tuitions[j].salary, tuitions[i].salary)
    ELSE IF sort = "price_desc"
    THEN ~StringLess(tuitions[i].salary, tuitions[j].salary)
    ELSE i >= j \/ (i <= 2 /\ j <= 2)

\* the orders cursor.sort(sortOptions) may return the selected posts in
SortOrders(S, sort) ==
    {o \in [1..Cardinality(S) -> S] :
        /\ \A a, b \in 1..Cardinality(S) : a # b => o[a] # o[b]
        /\ \A a, b \in 1..Cardinality(S) : a < b => SortedBefore(o[a], o[b], sort)}

\* cursor.skip(skip).limit(limit), a negative limit counting as its size
PageOf(order, skip, limit) ==
    LET size == IF limit < 0 THEN 0 - limit ELSE limit
    IN  [k \in 1..Min({size, IF Len(order) > skip THEN Len(order) - skip ELSE 0}) |->
            tuitions[order[skip + k]]]

\* the store throws: a pattern that is no regular expression, a negative skip
ListingThrows(query) ==
    \/ \E f \in {"search", "subject", "location", "stuClass"} : InvalidRegex(query[f])
    \/ (ParseIntOr(query.page, 1) - 1) * ParseIntOr(query.limit, 9) < 0

GetTuitions(query) ==
    LET page == ParseIntOr(query.page, 1)
        limit == ParseIntOr(query.limit, 9)
        skip == (page - 1) * limit
    IN  /\ Deliverable
        /\ UNCHANGED db
        /\ UNCHANGED <<stores, inserted, now, inflight>>
        /\ IF db.status # "Connected"
           THEN ReplyData("get-tuitions", NoHeader, query, 503, "database-unavailable", NoData)
           ELSE IF ListingThrows(query)
           THEN ReplyData("get-tuitions", NoHeader, query, 500, "failed", NoData)
           ELSE \E order \in SortOrders(Listed(query), query.sort) :
                    ReplyData("get-tuitions", NoHeader, query, 200, "listed",
                              PageOf(order, skip, limit))

(* ------------------------- the requests received ---------------------- *)
\* headers the verifier refuses: none, an empty one, nothing after the
\* first space, a second space right after the first, a token the
\* collaborator rejects
BadHeaders ==
    {NoHeader, Header(<<"Bearer", Space>>),
     Header(<<"Bearer", Space, Space, "tok_a1">>), Bearer("expired")}

TutorHeaders == {Bearer("tok_t1"), Bearer("tok_t2")}
StudentHeaders == {Bearer("tok_s1")}
HiringHeaders == StudentHeaders \cup TutorHeaders

\* the two posts, and an identifier no post has
TuitionIds == {1, 2, 3}
ApplicationIds == 1..MaxApps

\* what the student's client sends to accept an application it lists: the
\* application's id with its tuitionId and tutorEmail
SettleBodies ==
    {[applicationId |-> ToHexString(applications[i]._id),
      tuitionId |-> applications[i].tuitionId,
      tutorEmail |-> applications[i].tutorEmail] : i \in 1..Len(applications)}

\* what the gateway returns for a session created from such a body
Sessions ==
    {[payment_status |-> st,
      metadata |-> [tuitionId |-> b.tuitionId, tutorEmail |-> b.tutorEmail,
                    studentEmail |-> "s1", applicationId |-> b.applicationId]] :
        st \in {"paid", "unpaid"}, b \in SettleBodies}

Apply ==
    \/ \E h \in HiringHeaders, t \in TuitionIds : ApplyTuition(h, t)
    \/ \E h \in TutorHeaders, t \in {1, 2} : TuitionApplication(h, t)

Settle(failures) ==
    \/ \E h \in StudentHeaders, b \in SettleBodies, f \in {0} \cup failures :
            ProcessPayment(h, b.applicationId, b.tuitionId, b.tutorEmail,
                           "tx_1", f)
    \/ \E h \in StudentHeaders, b \in SettleBodies, f \in {0} \cup failures :
            PaymentsDemo(h, b.applicationId, b.tuitionId, b.tutorEmail, f)
    \/ \E h \in StudentHeaders, s \in Sessions, f \in {0} \cup failures :
            PaymentSuccess(h, "cs_1", s, f)

Review ==
    \/ \E h \in StudentHeaders, a \in ApplicationIds :
            PatchApplication(h, a, "approved")
    \/ \E h \in StudentHeaders, a \in ApplicationIds : RejectTutor(h, a)
    \/ \E h \in StudentHeaders, a \in ApplicationIds : DeleteApplication(h, a)

\* the hiring workflow, one request at a time, every store write succeeding
Next == Apply \/ Settle({})

Spec == Init /\ [][Next]_vars

\* applying, the student's other requests about applications, and Accept /
\* Settle through the gateway
NextReview ==
    \/ Apply
    \/ Review
    \/ \E h \in StudentHeaders, s \in Sessions : PaymentSuccess(h, "cs_1", s, 0)

SpecReview == Init /\ [][NextReview]_vars

\* the same with store writes that throw after the payment insert
NextFail == Apply \/ Settle({2, 3, 4})

SpecFail == Init /\ [][NextFail]_vars

\* apply requests of the tutors handled at the same time
NextRace ==
    \/ \E s \in Slots, r \in {"apply-tuition", "tuition-application"},
          h \in TutorHeaders, t \in {1} : ApplyStart(s, r, h, t)
    \/ \E s \in Slots : ApplyCheck(s)
    \/ \E s \in Slots : ApplyLoad(s)
    \/ \E s \in Slots : ApplyInsert(s)

SpecRace == Init /\ [][NextRace]_vars

\* the verifier and the gates: a caller of each role, a caller without a
\* user document (g1) and the headers the verifier refuses, on a route of
\* each gate, while roles change
AuthHeaders == BadHeaders \cup
    {Bearer("tok_s1"), Bearer("tok_t1"), Bearer("tok_a1"), Bearer("tok_g1")}

NextAuth ==
    \/ \E e \in {"g1", "s1"} : PostUser(e, "admin")
    \/ \E h \in AuthHeaders, r \in {"student", "tutor", "admin"} :
            UpdateRole(h, 1, r)
    \/ \E h \in AuthHeaders : PostRoleRequest(h)
    \/ \E h \in AuthHeaders, st \in {"approved", "rejected"} :
            PatchRoleRequest(h, 1, st)
    \/ \E h \in AuthHeaders : ApplyTuition(h, 1)

SpecAuth == Init /\ [][NextAuth]_vars

\* the public listing while posts are created, moderated and applied to
AdminHeaders == {Bearer("tok_a1")}

NoQuery ==
    [search |-> <<>>, subject |-> <<>>, location |-> <<>>, stuClass |-> <<>>,
     sort |-> None, page |-> <<>>, limit |-> <<>>, status |-> None]

\* queries by subject (a whole word, a part of one in lower case, a pattern
\* that is no regular expression) and status, and queries with the other
\* parameters
Queries ==
    {[NoQuery EXCEPT !.subject = sub, !.status = st] :
        sub \in {<<>>, Physics, Chemistry, <<"p", "h">>, <<"(">>},
        st \in {None, "pending"}} \cup
    {[NoQuery EXCEPT !.search = <<"d", "h", "a">>],
     [NoQuery EXCEPT !.location = Sylhet],
     [NoQuery EXCEPT !.stuClass = <<"9">>],
     [NoQuery EXCEPT !.sort = "price_asc"],
     [NoQuery EXCEPT !.sort = "price_desc", !.limit = <<"1">>],
     [NoQuery EXCEPT !.limit = <<"1">>, !.page = <<"2">>],
     [NoQuery EXCEPT !.page = <<"-", "1">>],
     [NoQuery EXCEPT !.limit = <<"-", "1">>, !.status = "pending"]}

\* what a client may send to POST /tuitions
TuitionBodies ==
    {[subject |-> Physics, class |-> <<"9">>, location |-> Dhaka,
      salary |-> <<"1", "0", "0", "0", "0">>, status |-> st] :
        st \in {None, "approved"}}

\* a seeded post and the posts POST /tuitions creates
ModeratedIds == {1} \cup 3..(2 + MaxNewTuitions)

NextListing ==
    \/ \E h \in StudentHeaders \cup {Bearer("tok_t1")}, b \in TuitionBodies :
            PostTuitions(h, b, FALSE)
    \/ \E h \in AdminHeaders \cup StudentHeaders, t \in ModeratedIds,
          st \in {"approved", "pending"} : TuitionStatus(h, t, st)
    \/ \E q \in Queries : GetTuitions(q)
    \/ \E h \in {Bearer("tok_t1")}, t \in ModeratedIds : ApplyTuition(h, t)
    \/ \E h \in {Bearer("tok_t1")}, t \in ModeratedIds : TuitionApplication(h, t)

SpecListing == Init /\ [][NextListing]_vars

\* one seeded post applied to, settled and moderated
NextStatus ==
    \/ \E h \in TutorHeaders : ApplyTuition(h, 1)
    \/ \E h \in AdminHeaders \cup StudentHeaders, st \in {"approved", "pending"} :
            TuitionStatus(h, 1, st)
    \/ Settle({})

SpecStatus == Init /\ [][NextStatus]_vars

\* users registering, editing their profiles and having their roles changed
ProfileBodies ==
    {[phone |-> ph, photoURL |-> None, image |-> None, displayName |-> None,
      role |-> "admin"] : ph \in {None, "017"}}

TutorProfileBodies ==
    {[qualification |-> "BSc", experience |-> None, subjects |-> None,
      bio |-> None, hourlyRate |-> <<"5", "0", "0">>, location |-> None,
      role |-> "admin"]}

UserHeaders == {Bearer("tok_s1"), Bearer("tok_a1")}

NextUsers ==
    \/ \E e \in {"g1", "s1"} : PostUser(e, "admin")
    \/ \E h \in UserHeaders, r \in {"tutor", "admin"} : UpdateRole(h, 1, r)
    \/ \E h \in UserHeaders : DeleteUser(h, 5)
    \/ \E h \in UserHeaders : PostRoleRequest(h)
    \/ \E h \in UserHeaders, st \in {"approved", "rejected"} :
            PatchRoleRequest(h, 1, st)
    \/ \E h \in UserHeaders \cup {Bearer("tok_g1")}, b \in ProfileBodies :
            PutUserProfile(h, b)
    \/ \E h \in UserHeaders, b \in TutorProfileBodies : PutTutorProfile(h, b)

SpecUsers == Init /\ [][NextUsers]_vars

\* students paying tutors and reviewing them, tutors reading their
\* notifications
PayBodies ==
    {[applicationId |-> 1, tuitionId |-> 1, tutorEmail |-> t] : t \in {"t1", "t2"}}

ReviewBodies ==
    {[tutorEmail |-> t, rating |-> <<r>>, tuitionId |-> id] :
        t \in {"t1", "t2"}, r \in {"5"}, id \in {1, 2}}

NextReviews ==
    \/ \E h \in StudentHeaders, b \in PayBodies :
            ProcessPayment(h, b.applicationId, b.tuitionId, b.tutorEmail, "tx_1", 0)
    \/ \E h \in {Bearer("tok_s1"), Bearer("tok_t1")}, b \in ReviewBodies, f \in {0, 2} :
            PostReviews(h, b, f)
    \/ \E h \in {Bearer("tok_s1"), Bearer("tok_t1")}, fails \in BOOLEAN :
            NotificationsReadAll(h, fails)

SpecReviews == Init /\ [][NextReviews]_vars

\* three students paying one tutor through the gateway and rating the tutor
RatingSessions ==
    {[id |-> r.id,
      session |-> [payment_status |-> "paid",
                   metadata |-> [tuitionId |-> 1, tutorEmail |-> "t1",
                                 studentEmail |-> r.student, applicationId |-> 1]]] :
        r \in {[id |-> "cs_1", student |-> "s1"], [id |-> "cs_2", student |-> "g1"],
               [id |-> "cs_3", student |-> "t2"]}}

RatingRequests ==
    {[hdr |-> Bearer("tok_s1"), rating |-> <<"5">>],
     [hdr |-> Bearer("tok_g1"), rating |-> <<"4">>],
     [hdr |-> Bearer("tok_t2"), rating |-> <<"3">>]}

NextRating ==
    \/ PostUser("g1", "student")
    \/ \E h \in AdminHeaders : UpdateRole(h, 3, "student")
    \/ \E h \in StudentHeaders, s \in RatingSessions :
            PaymentSuccess(h, s.id, s.session, 0)
    \/ \E r \in RatingRequests :
            PostReviews(r.hdr, [tutorEmail |-> "t1", rating |-> r.rating,
                                tuitionId |-> 1], 0)
    \/ \E t \in {"t1", "t2"} : GetTutorRating(t, FALSE)

SpecRating == Init /\ [][NextRating]_vars

\* the operations that notify someone, the notification insert failing or not
MessageBodies == {[conversationId |-> c, content |-> "hi"] : c \in {1, 9}}

NextNotify ==
    \/ \E h \in StudentHeaders, b \in TuitionBodies, fails \in BOOLEAN :
            PostTuitions(h, b, fails)
    \/ \E h \in StudentHeaders :
            ProcessPayment(h, 1, 1, "t1", "tx_1", 0)
    \/ \E h \in StudentHeaders, f \in {0, 2} :
            PostReviews(h, [tutorEmail |-> "t1", rating |-> <<"5">>,
                            tuitionId |-> 1], f)
    \/ \E h \in {Bearer("tok_s1"), Bearer("tok_t1")}, b \in MessageBodies, f \in {0, 3} :
            PostMessages(h, b, f)

SpecNotify == Init /\ [][NextNotify]_vars

(* --------------------- errors thrown by store calls ------------------- *)
\* how a route's handler treats an error thrown by one of its awaited
\* calls: inside its own try/catch, passed on by catchAsync, or neither
ErrorHandling ==
    ("reviews" :> "try-catch") @@ ("tuitions" :> "catchAsync") @@
    ("apply-tuition" :> "none")

\* the body of the requests of this section
ReviewBody == [tutorEmail |-> "t1", rating |-> <<"5">>, tuitionId |-> 1]

\* a request arrives and passes the verifier, whose awaited call is inside
\* a try/catch that answers 401
Receive(s, route, h) ==
    LET email == VerifyFBToken(h)
    IN  /\ Deliverable
        /\ UNCHANGED db
        /\ inflight[s].pc = "idle"
        /\ \A q \in Slots : q < s => inflight[q].pc # "idle"
        /\ UNCHANGED <<stores, inserted, now>>
        /\ IF db.status # "Connected"
           THEN Reply(route, h, 503, "database-unavailable") /\ UNCHANGED inflight
           ELSE IF email = None
           THEN Reply(route, h, 401, "unauthorized") /\ UNCHANGED inflight
           ELSE /\ inflight' = [inflight EXCEPT ![s] =
                        [pc |-> "gate", route |-> route, hdr |-> h,
                         email |-> email, tuitionId |-> 1, studentEmail |-> None]]
                /\ UNCHANGED last

\* the role gate: await usersCollection.findOne({ email }) with no
\* try/catch around it; when it throws, the promise the gate returned
\* rejects and nothing passes the error on
GateStep(s, throws) ==
    LET r == inflight[s]
    IN  /\ UNCHANGED db
        /\ r.pc = "gate"
        /\ UNCHANGED <<stores, inserted, now>>
        /\ IF throws
           THEN /\ inflight' = [inflight EXCEPT ![s].pc = "rejected"]
                /\ UNCHANGED last
           ELSE IF ~RoleGate(r.email, RouteRole[r.route])
           THEN /\ Reply(r.route, r.hdr, 403, "forbidden")
                /\ inflight' = [inflight EXCEPT ![s] = Idle]
           ELSE /\ inflight' = [inflight EXCEPT ![s].pc = "handler"]
                /\ UNCHANGED last

\* the handler, its first awaited store call throwing or none throwing
HandleStep(s, throws) ==
    LET r == inflight[s]
        kind == ErrorHandling[r.route]
    IN  /\ UNCHANGED db
        /\ r.pc = "handler"
        /\ IF kind = "try-catch"
           THEN /\ PostReviewsHandler(r.hdr, r.email, ReviewBody,
                                      IF throws THEN 1 ELSE 0)
                /\ inflight' = [inflight EXCEPT ![s] = Idle]
           ELSE IF throws
           THEN /\ inflight' = [inflight EXCEPT ![s].pc =
                        IF kind = "catchAsync" THEN "forwarded" ELSE "rejected"]
                /\ UNCHANGED <<stores, inserted, now, last>>
           ELSE /\ inflight' = [inflight EXCEPT ![s] = Idle]
                /\ IF kind = "catchAsync"
                   THEN \E b \in TuitionBodies :
                            PostTuitionsHandler(r.hdr, r.email, b, FALSE)
                   ELSE ApplyHandler(r.route, r.hdr, r.email, r.tuitionId)

\* the global error middleware answers an error passed to next
ErrorMiddleware(s) ==
    LET r == inflight[s]
    IN  /\ UNCHANGED db
        /\ r.pc = "forwarded"
        /\ Reply(r.route, r.hdr, 500, "server-error")
        /\ inflight' = [inflight EXCEPT ![s] = Idle]
        /\ UNCHANGED <<stores, inserted, now>>

\* process.on('unhandledRejection'): the rejection is logged, nothing is sent
UnhandledRejection(s) ==
    /\ UNCHANGED db
    /\ inflight[s].pc = "rejected"
    /\ inflight' = [inflight EXCEPT ![s].pc = "logged"]
    /\ UNCHANGED <<stores, inserted, now, last>>

\* requests whose awaited store calls may throw
ErrorHeaders == {Bearer("tok_s1"), Bearer("tok_t1"), NoHeader}

NextErrors ==
    \/ \E s \in Slots, r \in DOMAIN ErrorHandling, h \in ErrorHeaders : Receive(s, r, h)
    \/ \E s \in Slots, throws \in BOOLEAN : GateStep(s, throws)
    \/ \E s \in Slots, throws \in BOOLEAN : HandleStep(s, throws)
    \/ \E s \in Slots : ErrorMiddleware(s)
    \/ \E s \in Slots : UnhandledRejection(s)

SpecErrors == Init /\ [][NextErrors]_vars

\* what the event loop runs next for a request in flight
Continue(s) ==
    \/ \E throws \in BOOLEAN : GateStep(s, throws)
    \/ \E throws \in BOOLEAN : HandleStep(s, throws)
    \/ ErrorMiddleware(s)
    \/ UnhandledRejection(s)

\* every callback that is ready is eventually run
SpecErrorsFair == SpecErrors /\ \A s \in Slots : WF_vars(Continue(s))

\* role requests filed by the student and reviewed by the admin with an
\* arbitrary status
NextRoleRequests ==
    \/ \E h \in StudentHeaders \cup AdminHeaders : PostRoleRequest(h)
    \/ \E h \in StudentHeaders \cup AdminHeaders, id \in 1..MaxRoleRequests,
          st \in {"approved", "rejected", "pending"} : PatchRoleRequest(h, id, st)
    \/ \E h \in AdminHeaders, r \in {"student"} : UpdateRole(h, 1, r)

SpecRoleRequests == Init /\ [][NextRoleRequests]_vars

\* two tutors apply to post 1, then the student's settle requests are
\* handled at the same time
\* the checkout session the gateway created for an application
SessionId == (1 :> "cs_1") @@ (2 :> "cs_2") @@ (3 :> "cs_3")

NextSettleRace ==
    \/ \E h \in TutorHeaders : ApplyTuition(h, 1)
    \/ \E s \in Slots, h \in StudentHeaders, b \in SettleBodies, tick \in {0, 1} :
            DemoStart(s, h, b, tick)
    \/ \E s \in Slots, h \in StudentHeaders, x \in Sessions :
            SuccessStart(s, h, SessionId[x.metadata.applicationId], x)
    \/ \E s \in Slots : SuccessLookup(s)
    \/ \E s \in Slots : SettlePay(s)
    \/ \E s \in Slots : SettleApprove(s)
    \/ \E s \in Slots : SettleAssign(s)
    \/ \E s \in Slots : SettleRejectOthers(s)

SpecSettleRace == Init /\ [][NextSettleRace]_vars

\* settle requests whose body names any post, any application and any tutor
AnyBodies ==
    {[applicationId |-> a, tuitionId |-> t, tutorEmail |-> e] :
        a \in {1, 2}, t \in {1, 2}, e \in {"t1", "t2"}}

NextSettleAny ==
    \/ \E h \in TutorHeaders, t \in {1, 2} : ApplyTuition(h, t)
    \/ \E h \in StudentHeaders, b \in AnyBodies :
            ProcessPayment(h, b.applicationId, b.tuitionId, b.tutorEmail, "tx_1", 0)
    \/ \E h \in StudentHeaders, b \in AnyBodies :
            PaymentsDemo(h, b.applicationId, b.tuitionId, b.tutorEmail, 0)

SpecSettleAny == Init /\ [][NextSettleAny]_vars

\* settling through the demo route and through the gateway, with sessions
\* the gateway knows, one it does not know, and demo identifiers
GatewayIds == {"cs_1", "cs_9"} \cup {DemoId(t) : t \in 1..now}

NextGateway ==
    \/ \E h \in TutorHeaders : ApplyTuition(h, 1)
    \/ \E h \in StudentHeaders, b \in SettleBodies :
            PaymentsDemo(h, b.applicationId, b.tuitionId, b.tutorEmail, 0)
    \/ \E h \in StudentHeaders, id \in GatewayIds, x \in Sessions :
            PaymentSuccess(h, id, x, 0)

SpecGateway == Init /\ [][NextGateway]_vars

\* connectDB up to its await: the status is set before client.connect() is
\* awaited, in the same synchronous run that loads the module
StartServer ==
    /\ db.status = "Initializing..."
    /\ db' = [db EXCEPT !.status = "Connecting..."]
    /\ UNCHANGED <<stores, inserted, now, last, inflight>>

\* a connection that resolves without the collection handles being assigned
ConnectResolvesBeforeHandles ==
    /\ db.status = "Connecting..."
    /\ db' = [db EXCEPT !.status = "Connected"]
    /\ UNCHANGED <<stores, inserted, now, last, inflight>>

\* client.connect() resolves: the status and the eleven collection handles
\* are assigned in one synchronous run, so no request sees one without the
\* other
ConnectResolves ==
    /\ db.status = "Connecting..."
    /\ db' = [db EXCEPT !.status = "Connected", !.handles = TRUE]
    /\ UNCHANGED <<stores, inserted, now, last, inflight>>

\* client.connect() rejects: connectDB records the failure and rethrows, and
\* the catch of startServer exits the process before any request is served
ConnectRejects ==
    /\ db.status = "Connecting..."
    /\ db' = [db EXCEPT !.status = "Failed", !.exited = TRUE]
    /\ UNCHANGED <<stores, inserted, now, last, inflight>>

\* app.listen, called once connectDB has returned
Listen ==
    /\ db.status = "Connected"
    /\ ~db.listening
    /\ db' = [db EXCEPT !.listening = TRUE]
    /\ UNCHANGED <<stores, inserted, now, last, inflight>>

\* GET / is registered before the middleware and reports the status
GetRoot ==
    /\ Deliverable
    /\ ReplyData("/", NoHeader, NoArgs, 200, "running", [database |-> db.status])
    /\ UNCHANGED <<stores, inserted, now, inflight, db>>

\* /health passes the middleware; no route is registered for it
GetHealth ==
    /\ Deliverable
    /\ Reply("/health", NoHeader, 404, "no-route")
    /\ UNCHANGED <<stores, inserted, now, inflight, db>>

\* the server from the moment its module is loaded; the application is
\* exported, so a host may hand it requests before app.listen is called
NextStartup ==
    \/ StartServer
    \/ ConnectResolves
    \/ ConnectRejects
    \/ Listen
    \/ GetRoot
    \/ GetHealth
    \/ \E h \in {Bearer("tok_t1"), NoHeader} : ApplyTuition(h, 1)
    \/ \E h \in StudentHeaders : PostRoleRequest(h)
    \/ PostUser("n1", "student")
    \/ \E s \in Slots : ApplyStart(s, "tuition-application", Bearer("tok_t2"), 2)
    \/ \E s \in Slots : ApplyCheck(s)
    \/ \E s \in Slots : ApplyLoad(s)
    \/ \E s \in Slots : ApplyInsert(s)

SpecStartup == InitStartup /\ [][NextStartup]_vars

\* notifications to the tutors, then marked read or deleted one at a time by
\* a tutor, by the student, or by a caller without a token
NextNotifications ==
    \/ \E h \in StudentHeaders, b \in TuitionBodies : PostTuitions(h, b, FALSE)
    \/ \E h \in StudentHeaders :
            PostReviews(h, [tutorEmail |-> "t1", rating |-> <<"5">>,
                            tuitionId |-> 1], 0)
    \/ \E h \in StudentHeaders : ProcessPayment(h, 1, 1, "t1", "tx_1", 0)
    \/ \E h \in TutorHeaders \cup StudentHeaders \cup {NoHeader},
          id \in 1..MaxNotifications, fails \in BOOLEAN :
            NotificationRead(h, id, fails)
    \/ \E h \in TutorHeaders \cup StudentHeaders \cup {NoHeader},
          id \in 1..MaxNotifications, fails \in BOOLEAN :
            DeleteNotification(h, id, fails)

SpecNotifications == Init /\ [][NextNotifications]_vars

\* posts edited and deleted by their owner, by a second student (t1, once
\* the admin has given t1 the student role) and by a tutor, before and after
\* a tutor is assigned; the bodies also carry fields the edit does not list
EditBodies ==
    {[subject |-> Chemistry, class |-> <<"8">>, location |-> Dhaka,
      salary |-> <<"9", "0", "0">>, status |-> st, studentEmail |-> "t1",
      assignedTutorEmail |-> "t1"] : st \in {"approved", "closed"}}

NextTuitionEdit ==
    \/ UpdateRole(Bearer("tok_a1"), 2, "student")
    \/ ApplyTuition(Bearer("tok_t2"), 1)
    \/ \E h \in StudentHeaders : ProcessPayment(h, 1, 1, "t2", "tx_1", 0)
    \/ \E h \in StudentHeaders \cup TutorHeaders, id \in {1, 2, 9},
          b \in EditBodies, fails \in BOOLEAN :
            PutTuition(h, id, b, fails)
    \/ \E h \in StudentHeaders \cup TutorHeaders, id \in {1, 2, 9}, fails \in BOOLEAN :
            DeleteTuition(h, id, fails)

SpecTuitionEdit == Init /\ [][NextTuitionEdit]_vars

(* ============================== the claims ============================ *)
Accepted(a) == a.status \in {"accepted", "approved"}

\* the positions of the applications to a post
AppsOf(coll, post) == {i \in 1..Len(coll) : coll[i].tuitionId = post}

HasApplication(email, tuitionId) ==
    \E i \in 1..Len(applications) :
        /\ applications[i].tutorEmail = email
        /\ applications[i].tuitionId = tuitionId

\* this step is a settle request for body b, f its failure point
SettleStep(b, f) ==
    \E h \in StudentHeaders :
        \/ ProcessPayment(h, b.applicationId, b.tuitionId, b.tutorEmail, "tx_1", f)
        \/ PaymentsDemo(h, b.applicationId, b.tuitionId, b.tutorEmail, f)
        \/ \E s \in Sessions :
            /\ s.payment_status = "paid"
            /\ s.metadata.applicationId = b.applicationId
            /\ PaymentSuccess(h, "cs_1", s, f)

SettleSucceeded == last'.status = 200 /\ last'.msg \in {"success", "tutor-hired"}

\* C1: after a successful Accept/Settle for one of the N >= 1 pending
\* applications of a post, exactly one application of the post is
\* accepted/approved and the other N-1 are rejected.
OneAcceptedOthersRejected ==
    [][\A b \in SettleBodies :
        ( /\ \A i \in AppsOf(applications, b.tuitionId) :
                applications[i].status = "pending"
          /\ SettleStep(b, 0)
          /\ SettleSucceeded )
        => /\ Cardinality({i \in AppsOf(applications', b.tuitionId) :
                                Accepted(applications'[i])}) = 1
           /\ \A i \in AppsOf(applications', b.tuitionId) :
                \/ Accepted(applications'[i])
                \/ applications'[i].status = "rejected"]_vars

\* C2: each post has at most one accepted/approved application, and that
\* application's tutor is the post's assignedTutorEmail.
OneTutorPerPost ==
    \A t \in 1..Len(tuitions) :
        LET acc == {i \in AppsOf(applications, ToHexString(tuitions[t]._id)) :
                        Accepted(applications[i])}
        IN  /\ Cardinality(acc) <= 1
            /\ \A i \in acc :
                applications[i].tutorEmail = tuitions[t].assignedTutorEmail

NoDuplicatePair(coll) ==
    \A i, j \in 1..Len(coll) :
        (coll[i].tutorEmail = coll[j].tutorEmail /\ coll[i].tuitionId = coll[j].tuitionId)
            => i = j

\* C3: one request at a time, an apply request of a tutor for a post the
\* tutor already has an application to is answered 409 and inserts nothing,
\* and no step leaves two applications with the same (tutorEmail, tuitionId).
SecondApplicationRefused ==
    [][ /\ \A h \in HiringHeaders, t \in TuitionIds :
            ( /\ last'.hdr = h
              /\ RoleGate(VerifyFBToken(h), "tutor")
              /\ HasApplication(VerifyFBToken(h), t)
              /\ \/ last'.route = "apply-tuition" /\ ApplyTuition(h, t)
                 \/ last'.route = "tuition-application"
                        /\ TuitionApplication(h, t) )
            => (last'.status = 409 /\ applications' = applications)
        /\ NoDuplicatePair(applications') ]_vars

\* C3 witness: a tutor who has an application was just answered 409.
SecondApplicationSeen ==
    /\ last.route \in {"apply-tuition", "tuition-application"}
    /\ last.status = 409
    /\ last.msg = "already-applied"
    /\ \E t \in TuitionIds : HasApplication(VerifyFBToken(last.hdr), t)
    /\ \E i \in 1..Len(applications) : applications[i].status # "pending"

\* C5: no two payment records share a transactionId.
UniqueTransactionIds ==
    \A i, j \in 1..Len(payments) :
        payments[i].transactionId = payments[j].transactionId => i = j

\* C6: an accepted/approved application has a paid payment record for its
\* post and tutor.
AcceptedHasPayment ==
    \A i \in 1..Len(applications) :
        Accepted(applications[i]) =>
            \E k \in 1..Len(payments) :
                /\ payments[k].status = "paid"
                /\ payments[k].tuitionId = applications[i].tuitionId
                /\ payments[k].tutorEmail = applications[i].tutorEmail

\* C7: when a store write of a settle handler throws after the payment
\* insert, the payment record stays and the caller is answered 500.
FailedSettleAnswers500 ==
    [][\A b \in SettleBodies, f \in {2, 3, 4} :
        SettleStep(b, f)
        => /\ Len(payments') = Len(payments) + 1
           /\ last'.status = 500]_vars

\* C4: two apply requests of one tutor for one post can both be past the
\* "already applied" lookup before either inserts; the insert of the later
\* one is not guarded, so it lands, is answered 200 and leaves two
\* applications for the pair.  Nothing else duplicates a pair.
LookupDoesNotGuardInsert ==
    [][ /\ \A s \in Slots :
            ( /\ inflight[s].pc = "insertOne"
              /\ inflight'[s].pc = "idle"
              /\ HasApplication(inflight[s].email, inflight[s].tuitionId) )
            => /\ Len(applications') = Len(applications) + 1
               /\ ~NoDuplicatePair(applications')
               /\ last'.status = 200
        /\ (NoDuplicatePair(applications) /\ ~NoDuplicatePair(applications'))
            => \E s \in Slots :
                /\ inflight[s].pc = "insertOne"
                /\ inflight'[s].pc = "idle"
                /\ HasApplication(inflight[s].email, inflight[s].tuitionId) ]_vars

\* C4 witness: both requests have been answered 200 and the store holds two
\* applications of one tutor for one post.
DuplicatePairStored ==
    /\ ~NoDuplicatePair(applications)
    /\ last.status = 200
    /\ \A s \in Slots : inflight[s].pc = "idle"

\* the routes registered behind verifyFBToken
BehindVerifier == DOMAIN RouteRole

\* the user document a lookup by email finds, as a set of at most one role
RolesOnFile(email) ==
    {users[i].role : i \in {k \in 1..Len(users) :
        /\ users[k].email = email
        /\ \A j \in 1..(k - 1) : users[j].email # email}}

\* the token of a header text: the atom right after its first space
TokenOf(text) ==
    LET spaces == {i \in 1..Len(text) : text[i] = Space}
        first == Min(spaces)
    IN  IF spaces = {} THEN None
        ELSE IF first = Len(text) THEN None
        ELSE IF text[first + 1] = Space THEN None
        ELSE text[first + 1]

\* whom the identity collaborator says the header's token belongs to
Caller(h) ==
    IF h.present /\ TokenOf(h.text) \in DOMAIN TokenEmail
    THEN TokenEmail[TokenOf(h.text)]
    ELSE None

\* C8: a request of a verified caller on a role-gated route is answered 403
\* and changes no store unless the user document found for the caller's
\* email carries exactly the route's role, and it reaches the handler (is
\* answered neither 401 nor 403) when it does.
GateAdmitsExactRoleOnly ==
    [][ ( /\ last'.route \in DOMAIN RouteRole
          /\ RouteRole[last'.route] # None
          /\ Caller(last'.hdr) # None )
        => IF RolesOnFile(Caller(last'.hdr)) = {RouteRole[last'.route]}
           THEN last'.status \notin {401, 403}
           ELSE /\ last'.status = 403
                /\ stores' = stores
                /\ inserted' = inserted ]_vars

\* C8 witness: a caller without a user document was just refused with 403,
\* after some gated request had been let through to write.
UnknownCallerRefused ==
    /\ last.route \in DOMAIN RouteRole
    /\ last.status = 403
    /\ Caller(last.hdr) # None
    /\ RolesOnFile(Caller(last.hdr)) = {}
    /\ inserted.applications + inserted.roleRequests > 0

\* the role each user had at the start
FirstRole ==
    ("s1" :> "student") @@ ("t1" :> "tutor") @@ ("t2" :> "tutor") @@
    ("a1" :> "admin") @@ ("g1" :> None)

\* C9: a request by a user whose stored role is no longer the one the user
\* started with is decided by the role stored now: refused with 403 on the
\* routes of any other role, let through on the routes of that role.
GateReadsRoleAfresh ==
    [][ \A e \in DOMAIN FirstRole :
        ( /\ last'.route \in DOMAIN RouteRole
          /\ RouteRole[last'.route] # None
          /\ Caller(last'.hdr) = e
          /\ RolesOnFile(e) # {FirstRole[e]}
          /\ RolesOnFile(e) # {} )
        => (last'.status = 403) = (RolesOnFile(e) # {RouteRole[last'.route]}) ]_vars

\* C9 witness: the student, made a tutor by an approved role request, was
\* just let through on a tutor-only route.
PromotedStudentAdmitted ==
    /\ RolesOnFile("s1") = {"tutor"}
    /\ \E i \in 1..Len(roleRequests) :
            roleRequests[i].userEmail = "s1" /\ roleRequests[i].status = "approved"
    /\ Caller(last.hdr) = "s1"
    /\ last.route = "apply-tuition"
    /\ last.status = 200

\* the header is missing, carries no token after its first space, or carries
\* a token the identity collaborator rejects
Unverifiable(h) == Caller(h) = None

\* C10: a request on a route behind the verifier whose header is
\* unverifiable is answered 401 and changes no store.
UnverifiableIs401 ==
    [][ (last'.route \in BehindVerifier /\ Unverifiable(last'.hdr))
        => /\ last'.status = 401
           /\ stores' = stores
           /\ inserted' = inserted ]_vars

\* C10 witness: a header with a second space right after the first, then a
\* token the collaborator would accept, was just answered 401 on an
\* admin-only route, after some store had been written.
NoTokenAfterFirstSpace401 ==
    /\ last.route = "update-role"
    /\ last.status = 401
    /\ last.hdr = Header(<<"Bearer", Space, Space, "tok_a1">>)
    /\ inserted.applications + inserted.roleRequests > 0

\* the text contains the word, case ignored (word without special characters)
ContainsWord(text, word) ==
    \E k \in 0..(Len(text) - Len(word)) :
        \A j \in 1..Len(word) : ToLower(text[k + j]) = ToLower(word[j])

\* the filters of a query that are plain words
PlainQuery(q) ==
    \A f \in {"search", "subject", "location", "stuClass"} :
        \A i \in 1..Len(q[f]) : q[f][i] \notin {".", "("}

\* the post satisfies every filter the plain query supplies
SatisfiesFilters(t, q) ==
    /\ q.search # <<>> => ContainsWord(t.subject, q.search) \/ ContainsWord(t.location, q.search)
    /\ q.subject # <<>> => ContainsWord(t.subject, q.subject)
    /\ q.location # <<>> => ContainsWord(t.location, q.location)
    /\ q.stuClass # <<>> => ContainsWord(t.class, q.stuClass)

InData(t) == \E k \in 1..Len(last'.data) : last'.data[k] = t

NotYetOpen(ts, as, id) ==
    /\ \E i \in 1..Len(ts) : ts[i]._id = id /\ ts[i].status # "approved"
    /\ \A k \in 1..Len(as) : as[k].tuitionId # ToHexString(id)

\* this step is an admin's status update that approved the post
ApprovedByAdmin(id) ==
    /\ last'.route = "tuition-status"
    /\ last'.status = 200
    /\ RolesOnFile(Caller(last'.hdr)) = {"admin"}
    /\ \E i \in 1..Len(tuitions') :
            tuitions'[i]._id = id /\ tuitions'[i].status = "approved"

\* C12: POST /tuitions stores the post with status pending whatever the body
\* says; a post that is not approved and has no application stays so until
\* an admin's status update approves it, is in no listing, and every apply
\* request of a tutor for it is answered 403 and inserts nothing.
PendingUntilApproved ==
    [][ /\ (last'.route = "tuitions" /\ last'.status = 200)
            => /\ Len(tuitions') = Len(tuitions) + 1
               /\ tuitions'[Len(tuitions')].status = "pending"
               /\ NotYetOpen(tuitions', applications', tuitions'[Len(tuitions')]._id)
        /\ \A i \in 1..Len(tuitions) :
            NotYetOpen(tuitions, applications, tuitions[i]._id)
            => /\ last'.route = "get-tuitions" => ~InData(tuitions[i])
               /\ \A h \in TutorHeaders :
                    ( /\ last'.hdr = h
                      /\ \/ ApplyTuition(h, ToHexString(tuitions[i]._id))
                         \/ TuitionApplication(h, ToHexString(tuitions[i]._id)) )
                    => (last'.status = 403 /\ applications' = applications)
               /\ \/ NotYetOpen(tuitions', applications', tuitions[i]._id)
                  \/ ApprovedByAdmin(tuitions[i]._id) ]_vars

\* C12 witness: a post created with status approved in its body is stored
\* as pending and a tutor's application to it was just answered 403.
PendingPostRefusedApplication ==
    /\ last.route \in {"apply-tuition", "tuition-application"}
    /\ last.status = 403
    /\ last.msg = "not-open"
    /\ tuitions[1].status = "approved"
    /\ Len(tuitions) = 3
    /\ tuitions[3].status = "pending"
    /\ NotYetOpen(tuitions, applications, tuitions[3]._id)

\* the place of a status on the way pending -> approved -> assigned
StatusRank == ("pending" :> 1) @@ ("approved" :> 2) @@ ("assigned" :> 3)

\* this step is a successful Accept/Settle request
SettledNow ==
    /\ last'.route \in {"process-payment", "payments/demo", "payment-success"}
    /\ last'.status = 200
    /\ last'.msg \in {"success", "tutor-hired"}
    /\ Len(payments') = Len(payments) + 1

\* C13: a post's status changes only in an admin's status update or a
\* successful Accept/Settle, never to an earlier status, and a successful
\* Accept/Settle takes the post it assigns out of the approved status.
StatusOnlyForward ==
    [][ \A i \in 1..Len(tuitions) :
        LET before == tuitions[i]
            after == tuitions'[i]
        IN  /\ before.status # after.status
                => /\ \/ SettledNow
                      \/ /\ last'.route = "tuition-status"
                         /\ RolesOnFile(Caller(last'.hdr)) = {"admin"}
                   /\ StatusRank[before.status] < StatusRank[after.status]
            /\ ( /\ SettledNow
                 /\ before.status = "approved"
                 /\ before.assignedTutorEmail # after.assignedTutorEmail )
                => after.status # "approved" ]_vars

\* this step is an admin's role update, or an admin's approval of a role
\* request of the user with this email
RoleChangedByAdmin(e) ==
    /\ RolesOnFile(Caller(last'.hdr)) = {"admin"}
    /\ last'.status = 200
    /\ \/ last'.route = "update-role"
       \/ /\ last'.route = "role-requests/:id"
          /\ \E i \in 1..Len(roleRequests') :
                /\ roleRequests'[i].userEmail = e
                /\ roleRequests'[i].status = "approved"
                /\ roleRequests'[i].reviewedBy = Caller(last'.hdr)

\* the role of the user document with this email in a users store
RoleIn(us, e) == {us[i].role : i \in {k \in 1..Len(us) : us[k].email = e}}

\* C14: the role of a user who is registered before and after a step changes
\* only in an admin's role update or an admin's approval of the user's role
\* request; POST /user for a registered email changes no user document, and
\* the profile updates leave every role as it was.
RoleChangesOnlyByAdmin ==
    [][ /\ \A e \in DOMAIN FirstRole :
            ( /\ RoleIn(users, e) # {}
              /\ RoleIn(users', e) # {}
              /\ RoleIn(users', e) # RoleIn(users, e) )
            => RoleChangedByAdmin(e)
        /\ (last'.route = "user" /\ last'.msg = "exists") => users' = users
        /\ last'.route \in {"user/profile", "tutor/profile"}
            => \A e \in DOMAIN FirstRole : RoleIn(users', e) = RoleIn(users, e) ]_vars

\* C14 witness: a profile update that carried a role was just applied to the
\* student's document, whose role is still student.
ProfileUpdateKeptRole ==
    /\ last.route = "user/profile"
    /\ last.status = 200
    /\ Caller(last.hdr) = "s1"
    /\ RoleIn(users, "s1") = {"student"}
    /\ \E i \in 1..Len(users) :
            users[i].email = "s1" /\ "phone" \in DOMAIN users[i]

\* the reviews of a store that a student wrote for a tutor
ReviewsBy(rs, student, tutor) ==
    {i \in 1..Len(rs) : rs[i].studentEmail = student /\ rs[i].tutorEmail = tutor}

\* a paid payment of the student to the tutor is on file
HasPaid(student, tutor) ==
    \E i \in 1..Len(payments) :
        /\ payments[i].studentEmail = student
        /\ payments[i].tutorEmail = tutor
        /\ payments[i].status = "paid"

\* this step answers a POST /reviews of a caller the student gate admits
ReviewRequest ==
    /\ last'.route = "reviews"
    /\ RolesOnFile(Caller(last'.hdr)) = {"student"}

\* C15: with requests handled one at a time no student has two reviews of
\* one tutor: a POST /reviews of a student who already reviewed the tutor is
\* answered 409 and inserts neither a review nor a notification, and one of
\* a student without a paid payment to the tutor is answered 403 and inserts
\* nothing either.
OneReviewPerTutor ==
    [][ /\ ReviewRequest =>
            /\ ReviewsBy(reviews, Caller(last'.hdr), last'.args.tutorEmail) # {}
                => /\ last'.status = 409
                   /\ reviews' = reviews
                   /\ notifications' = notifications
            /\ ~HasPaid(Caller(last'.hdr), last'.args.tutorEmail)
                => /\ last'.status = 403
                   /\ reviews' = reviews
                   /\ notifications' = notifications
        /\ \A s \in DOMAIN FirstRole, t \in DOMAIN FirstRole :
                Cardinality(ReviewsBy(reviews', s, t)) <= 1 ]_vars

\* C15 witness: a second review of a tutor was just refused with 409.
SecondReviewRefused ==
    /\ last.route = "reviews"
    /\ last.status = 409
    /\ ReviewsBy(reviews, Caller(last.hdr), last.args.tutorEmail) # {}
    /\ HasPaid(Caller(last.hdr), last.args.tutorEmail)

\* the reviews on file of a tutor, and how many of them carry a rating
ReviewsOf(tutor) == {i \in 1..Len(reviews) : reviews[i].tutorEmail = tutor}

RatedWith(tutor, n) ==
    Cardinality({i \in ReviewsOf(tutor) : reviews[i].rating = [nan |-> FALSE, n |-> n]})

\* the tutor's reviews are three, rated 5, 4 and 3
Rated543(tutor) ==
    /\ Cardinality(ReviewsOf(tutor)) = 3
    /\ RatedWith(tutor, 5) = 1
    /\ RatedWith(tutor, 4) = 1
    /\ RatedWith(tutor, 3) = 1

\* the sum of the ratings of a set of reviews
RECURSIVE SumOfRatings(_)
SumOfRatings(S) ==
    IF S = {} THEN 0
    ELSE LET i == CHOOSE k \in S : TRUE
         IN  reviews[i].rating.n + SumOfRatings(S \ {i})

\* this step answers a GET /tutor-rating with a rating
RatingAnswered == last'.route = "tutor-rating" /\ last'.status = 200

\* tenths is a nearest tenth of total / count
NearestTenth(tenths, total, count) ==
    /\ 2 * (10 * total - tenths * count) <= count
    /\ 2 * (tenths * count - 10 * total) <= count

\* C16: GET /tutor-rating answers averageRating 0 and totalReviews 0 for a
\* tutor without reviews; for a tutor whose reviews are rated 5, 4 and 3 it
\* answers averageRating 4.0 and totalReviews 3; and in general the mean of
\* the ratings rounded to one decimal with the number of reviews.
RatingIsRoundedMean ==
    [][ RatingAnswered =>
            LET tutor == last'.args.tutorEmail
                count == Cardinality(ReviewsOf(tutor))
                answer == last'.data
            IN  /\ answer.totalReviews = count
                /\ ~answer.averageRating.nan
                /\ count = 0 => answer.averageRating.tenths = 0
                /\ Rated543(tutor) => answer.averageRating.tenths = 40
                /\ count > 0 => NearestTenth(answer.averageRating.tenths,
                                             SumOfRatings(ReviewsOf(tutor)), count) ]_vars

\* C16 as stated: for reviews rated 5, 4 and 3 the answer is averageRating
\* 3.0 and totalReviews 3 (and 0 and 0 for no reviews).
RatingOf543IsThree ==
    [][ RatingAnswered =>
            LET tutor == last'.args.tutorEmail
                answer == last'.data
            IN  /\ ReviewsOf(tutor) = {} =>
                    answer.averageRating.tenths = 0 /\ answer.totalReviews = 0
                /\ Rated543(tutor) =>
                    answer.averageRating.tenths = 30 /\ answer.totalReviews = 3 ]_vars

\* C16 witness: the rating of a tutor with reviews rated 5, 4 and 3 was
\* just answered.
Rated543Answered ==
    /\ last.route = "tutor-rating"
    /\ last.status = 200
    /\ Rated543(last.args.tutorEmail)
    /\ last.data.totalReviews = 3

\* C17: a PATCH /notifications/read-all answered with success sets read on
\* every notification addressed to the caller and changes nothing else: the
\* other fields of the caller's notifications, every notification addressed
\* to another user, and the number and order of the notifications.
ReadAllMarksOnlyOwn ==
    [][ ( /\ last'.route = "notifications/read-all"
          /\ last'.status = 200 )
        => /\ Len(notifications') = Len(notifications)
           /\ \A i \in 1..Len(notifications) :
                IF notifications[i].userEmail = Caller(last'.hdr)
                THEN notifications'[i] = [notifications[i] EXCEPT !.read = TRUE]
                ELSE notifications'[i] = notifications[i] ]_vars

\* C17 witness: tutor t1 has just marked all read while an unread
\* notification of tutor t2 is on file.
ReadAllLeftOthersUnread ==
    /\ last.route = "notifications/read-all"
    /\ last.status = 200
    /\ Caller(last.hdr) = "t1"
    /\ \E i \in 1..Len(notifications) :
            notifications[i].userEmail = "t1" /\ notifications[i].read
    /\ \E i \in 1..Len(notifications) :
            notifications[i].userEmail = "t2" /\ ~notifications[i].read

\* this step stored the primary document of an operation that notifies
PrimaryInserted ==
    \/ last'.route = "tuitions" /\ Len(tuitions') > Len(tuitions)
    \/ last'.route = "reviews" /\ Len(reviews') > Len(reviews)
    \/ /\ last'.route = "messages"
       /\ Len(messages') > Len(messages)
       /\ \E i \in 1..Len(conversations') :
            ToHexString(conversations'[i]._id) = messages'[Len(messages')].conversationId

\* C18: when the primary insert of POST /tuitions, POST /reviews or POST
\* /messages has succeeded and no notification is inserted after it, the
\* caller still gets the success response.
NotificationFailureKeepsSuccess ==
    [][ (PrimaryInserted /\ notifications' = notifications)
            => last'.status = 200 ]_vars

\* C19: a request in whose gate or handler an error was thrown is
\* eventually answered (by the handler's catch or by the global error
\* middleware): none is left without a response.
ThrownErrorAnswered ==
    \A s \in Slots :
        (inflight[s].pc \in {"rejected", "forwarded"}) ~> (inflight[s].pc = "idle")

\* the pending role requests of a user
PendingRequestsOf(e) ==
    {i \in 1..Len(roleRequests) :
        roleRequests[i].userEmail = e /\ roleRequests[i].status = "pending"}

\* C20: with requests handled one at a time no user has two pending role
\* requests: a POST /role-requests of a user with a pending request is
\* answered 409 and inserts nothing, and no other request makes a second
\* request of the user pending.
AtMostOnePendingRequest ==
    /\ \A e \in DOMAIN FirstRole : Cardinality(PendingRequestsOf(e)) <= 1
    /\ (last.route = "role-requests" /\ last.status = 200)
            => Cardinality(PendingRequestsOf(Caller(last.hdr))) = 1

\* this step created an application through one of the two apply routes
ApplicationCreated ==
    /\ last'.route \in {"apply-tuition", "tuition-application"}
    /\ last'.status = 200
    /\ Len(applications') = Len(applications) + 1

\* the owner of the post the newest application of a store is for
OwnerOfNewest(as) ==
    {tuitions[t].studentEmail : t \in {k \in 1..Len(tuitions) :
        ToHexString(tuitions[k]._id) = as[Len(as)].tuitionId}}

\* C21: whenever an apply request creates an application, a new unread
\* notification addressed to the student who owns the post exists afterwards.
ApplicationNotifiesOwner ==
    [][ ApplicationCreated =>
            \E i \in (Len(notifications) + 1)..Len(notifications') :
                /\ notifications'[i].userEmail \in OwnerOfNewest(applications')
                /\ ~notifications'[i].read ]_vars

\* the application with this identifier, as a set of positions
AppAt(coll, id) == {i \in 1..Len(coll) : ToHexString(coll[i]._id) = id}

\* C22: nothing guards a settle request against another one in flight for
\* the same post: its update of its own application approves it whatever
\* the other request has written, and its last write rejects every other
\* application of the post, approved ones included, before it is answered
\* with success.
SettleWritesUnguarded ==
    [][ \A s \in Slots :
        /\ ( /\ inflight[s].pc = "updateOne-application"
             /\ inflight'[s].pc = "updateOne-tuition" )
            => \A i \in AppAt(applications', inflight[s].applicationId) :
                    applications'[i].status = "approved"
        /\ ( /\ inflight[s].pc = "updateMany-applications"
             /\ inflight'[s].pc = "idle" )
            => /\ last'.status = 200
               /\ \A i \in AppsOf(applications', inflight[s].tuitionId) :
                    i \notin AppAt(applications', inflight[s].applicationId)
                        => applications'[i].status = "rejected" ]_vars

\* C22 witness: two settle requests for the two applications of post 1 have
\* both been answered with success, two payments for the post are recorded,
\* and both applications are rejected although the post has a tutor.
BothRejectedAfterTwoSettles ==
    /\ \A s \in Slots : inflight[s].pc = "idle"
    /\ last.status = 200
    /\ last.route \in {"payments/demo", "payment-success"}
    /\ \E i, j \in 1..Len(payments) :
            /\ payments[i].tuitionId = 1 /\ payments[j].tuitionId = 1
            /\ payments[i].tutorEmail # payments[j].tutorEmail
    /\ Cardinality(AppsOf(applications, 1)) = 2
    /\ \A i \in AppsOf(applications, 1) : applications[i].status = "rejected"
    /\ \E t \in 1..Len(tuitions) :
            /\ ToHexString(tuitions[t]._id) = 1
            /\ tuitions[t].assignedTutorEmail \in {"t1", "t2"}

\* the application of a settle body is accepted and a payment to its tutor
\* for its post is on file
AlreadySettled(b) ==
    /\ \E i \in AppAt(applications, b.applicationId) : Accepted(applications[i])
    /\ \E i \in 1..Len(payments) :
            /\ payments[i].tuitionId = b.tuitionId
            /\ payments[i].tutorEmail = b.tutorEmail

\* C23: with requests handled one at a time, a settle request for an
\* application that was already settled inserts no payment and changes no
\* application and no post, through each of the three settle routes.
ResubmittedSettleChangesNothing ==
    [][ \A b \in SettleBodies :
            (AlreadySettled(b) /\ SettleStep(b, 0))
                => /\ payments' = payments
                   /\ applications' = applications
                   /\ tuitions' = tuitions ]_vars

\* this step is a settle request with body b through a route that takes
\* the three identifiers from the body
SettleAnyStep(b) ==
    \E h \in StudentHeaders :
        \/ ProcessPayment(h, b.applicationId, b.tuitionId, b.tutorEmail, "tx_1", 0)
        \/ PaymentsDemo(h, b.applicationId, b.tuitionId, b.tutorEmail, 0)

\* C24: a successful settle request for (tuitionId, applicationId,
\* tutorEmail) leaves every application of another post and every other
\* post unchanged, and the tutor it assigns to the post is the tutor of the
\* accepted application, which is an application to that post.
SettleTouchesOnlyItsPost ==
    [][ \A b \in AnyBodies :
            (SettleAnyStep(b) /\ SettleSucceeded)
                => /\ \A i \in 1..Len(applications) :
                        applications[i].tuitionId # b.tuitionId
                            => applications'[i] = applications[i]
                   /\ \A t \in 1..Len(tuitions) :
                        ToHexString(tuitions[t]._id) # b.tuitionId
                            => tuitions'[t] = tuitions[t]
                   /\ \A t \in 1..Len(tuitions), i \in AppAt(applications', b.applicationId) :
                        ToHexString(tuitions[t]._id) = b.tuitionId
                            => /\ applications'[i].tuitionId = b.tuitionId
                               /\ tuitions'[t].assignedTutorEmail =
                                    applications'[i].tutorEmail ]_vars

\* the post with this identifier carries an assigned tutor
Assigned(id) ==
    \E t \in 1..Len(tuitions) :
        /\ ToHexString(tuitions[t]._id) = id
        /\ (tuitions[t].assignedTutorEmail # None \/ tuitions[t].assignedTutorId # None)

\* C25: with requests handled one at a time, no apply request creates an
\* application for a post that carries an assigned tutor.
AssignedPostTakesNoApplication ==
    [][ ApplicationCreated
            => ~Assigned(applications'[Len(applications')].tuitionId) ]_vars

\* a payment with the transaction identifier of a known session is on file
RecordedFor(id) ==
    \E i \in 1..Len(payments) :
        id \in DOMAIN PaymentIntent /\ payments[i].transactionId = PaymentIntent[id]

\* C26: POST /payment-success leaves payments, applications and posts
\* unchanged unless the session is paid and its transaction is not yet
\* recorded: a DEMO_ identifier is only looked up, an unpaid session is
\* answered 400, and a recorded transaction is answered 'Payment already
\* recorded'.
PaymentSuccessWritesOnlyWhenDue ==
    [][ \A h \in StudentHeaders, id \in GatewayIds, x \in Sessions :
            PaymentSuccess(h, id, x, 0) =>
                LET demo == \E t \in 1..now : id = DemoId(t)
                    known == id \in DOMAIN PaymentIntent
                    paid == x.payment_status = "paid"
                IN  /\ (demo \/ ~known \/ ~paid \/ RecordedFor(id))
                        => /\ payments' = payments
                           /\ applications' = applications
                           /\ tuitions' = tuitions
                    /\ demo => last'.status = 200
                    /\ (known /\ ~paid) => last'.status = 400
                    /\ (known /\ paid /\ RecordedFor(id))
                        => last'.status = 200 /\ last'.msg = "already-recorded" ]_vars

\* C26 witness: a session whose transaction is on file was just answered
\* 'Payment already recorded'.
RecordedSessionAnswered ==
    /\ last.route = "payment-success"
    /\ last.msg = "already-recorded"
    /\ RecordedFor("cs_1")

\* the posts created by POST /tuitions: those after the two seeded ones
CreatedPosts == {t \in 1..Len(tuitions) : ToHexString(tuitions[t]._id) > 2}

\* C27: every application to a post created by POST /tuitions records the
\* email of the post's owner as its studentEmail, and is among the
\* applications the owner's GET /student-applications finds.
ApplicationRecordsOwner ==
    \A t \in CreatedPosts :
      \A i \in AppsOf(applications, ToHexString(tuitions[t]._id)) :
        /\ applications[i].studentEmail = tuitions[t].studentEmail
        /\ \E k \in 1..Len(StudentApplications(tuitions[t].studentEmail)) :
                StudentApplications(tuitions[t].studentEmail)[k] = applications[i]

RootPaths == {"/", "/health"}

\* a step in which a request to another path is answered or is left in flight
RequestStep == (last' # last /\ last'.route \notin RootPaths) \/ inflight' # inflight

\* C28: a request to a path other than / and /health is answered 503 and
\* changes nothing while the status is not Connected; one that gets past the
\* middleware finds the status Connected and every collection handle assigned
OnlyConnectedIsServed ==
    [][/\ RequestStep /\ db.status # "Connected" =>
            /\ last'.status = 503
            /\ UNCHANGED <<stores, inserted, inflight>>
       /\ RequestStep /\ ~(last' # last /\ last'.status = 503) =>
            db.status = "Connected" /\ db.handles
       /\ db'.status = "Connected" => db'.handles]_vars

RefusedWhileConnecting ==
    /\ db.status = "Connecting..."
    /\ last.status = 503
    /\ last.route = "apply-tuition"


\* the notifications addressed to someone other than the caller of a request
OfOthers(coll, h) == {n \in {coll[i] : i \in 1..Len(coll)} : n.userEmail # Caller(h)}

\* C29: PATCH /notifications/:id/read and DELETE /notifications/:id leave
\* every notification addressed to a user other than the authenticated
\* caller as it was, neither marked read nor deleted
NotificationChangedOnlyByAddressee ==
    [][last' # last /\ last'.route \in {"notifications/:id/read", "delete-notification"}
            => OfOthers(notifications, last'.hdr) \subseteq
               OfOthers(notifications', last'.hdr)]_vars


\* a PUT or DELETE /tuition/:id that reached its handler
EditHandled(route) ==
    /\ last' # last \/ tuitions' # tuitions
    /\ last'.route = route
    /\ last'.status \notin {401, 403, 503}

\* the posts the request names that belong to someone other than its caller
PostsOfOthers(id, h) ==
    {i \in AppAt(tuitions, id) : tuitions[i].studentEmail # Caller(h)}

\* C30: PUT /tuition/:id and DELETE /tuition/:id by a student who is not the
\* owner of the post leave the posts as they were and, unless the store call
\* throws, answer 404; PUT /tuition/:id never changes the number of posts
\* or the status, the owner or the assigned tutor of any post
OnlyOwnerEditsPost ==
    [][/\ \A route \in {"put-tuition", "delete-tuition"} :
            EditHandled(route) /\ PostsOfOthers(last'.args.id, last'.hdr) # {} =>
                /\ tuitions' = tuitions
                /\ last'.msg \notin {"rejected-promise", "failed"} => last'.status = 404
       /\ EditHandled("put-tuition") =>
            /\ Len(tuitions') = Len(tuitions)
            /\ \A i \in 1..Len(tuitions) :
                    /\ tuitions'[i]._id = tuitions[i]._id
                    /\ tuitions'[i].status = tuitions[i].status
                    /\ tuitions'[i].studentEmail = tuitions[i].studentEmail
                    /\ tuitions'[i].assignedTutorEmail = tuitions[i].assignedTutorEmail
                    /\ tuitions'[i].assignedTutorId = tuitions[i].assignedTutorId]_vars

\* the owner has edited post 1 after its tutor was assigned, and another
\* student's request to delete it was answered 404
EditedByOwnerRefusedToOther ==
    /\ last.route = "delete-tuition"
    /\ last.status = 404
    /\ Caller(last.hdr) = "t1"
    /\ \E i \in AppAt(tuitions, last.args.id) :
            /\ tuitions[i].studentEmail = "s1"
            /\ tuitions[i].assignedTutorEmail = "t2"
            /\ tuitions[i].subject = Chemistry
            /\ tuitions[i].status # "closed"

=============================================================================
